---- MODULE Spec2Model ----
(***************************************************************************)
(* VeloPerf, backend/core/android_collector.py: the per-device collector.  *)
(*                                                                         *)
(* One AndroidCollector object, its three asyncio loops (metrics,          *)
(* screenshot, logcat), the device behind adb and the sink callback.       *)
(*                                                                         *)
(* Scheduling.  All three loops are coroutines of ONE event loop.          *)
(* _collect_once() and the `ls` probe call device.shell() synchronously,   *)
(* so from the first shell command of a metrics tick to its last one no    *)
(* other coroutine runs (InShell).  Only the device, the wall clock and    *)
(* the executor thread of the screenshot loop move meanwhile.  A pc value  *)
(* of the metrics loop that names a command ("mem", "bat", ...) means:     *)
(* that command has been issued and has not returned; the action of that   *)
(* name is its return together with the synchronous code up to the next    *)
(* command.                                                                *)
(*                                                                         *)
(* Device.  connected = FALSE: every shell command and capture fails with  *)
(* an error whose text has "not found" or "offline" (TransportLost).       *)
(* connected = TRUE: a command may succeed, fail otherwise, or still fail  *)
(* with TransportLost.                                                     *)
(***************************************************************************)
EXTENDS Integers, Sequences, FiniteSets, TLC

\* ------------------------------------------------------------------ bounds
MaxStarts == 2      \* start() calls in one behaviour (loop generations)
MaxClock == 2       \* wall-clock readings 0..MaxClock
MaxRows == 3        \* frames in a latency dump drawn from Times
MaxLayers == 3      \* layers in a scan with every combination of answers
MaxTopLines == 2    \* lines in an output of top drawn from TopLines
MaxMemLines == 2    \* lines in an output of meminfo drawn from MemLines
MaxFrames == 2      \* rows after line 0 in a latency dump drawn from FrameLines
MaxQueue == 2       \* events waiting in data_queue
MaxRecord == 3      \* rows in a CSV file, the header included

\* --------------------------------------------------------------- constants
\* Python's None (and the empty string): the empty tuple.
None == << >>
Gens == 1..MaxStarts

\* Package names as character tuples, so that Python's `in` is a real
\* substring test.  PkgA is a proper prefix of PkgB.
PkgA == <<"a">>
PkgB == <<"a", "b">>
Packages == {PkgA, PkgB}

\* What a start message may carry as its target: a package, or nothing.
Targets == Packages \cup {None}

InStr(needle, hay) ==
    \E i \in 0..(Len(hay) - Len(needle)) :
        SubSeq(hay, i + 1, i + Len(needle)) = needle

\* The device: processes, compositor layers and traffic counters per package.
PidsOf(p) == IF p = PkgA THEN {"11"} ELSE {"22"}
LayerOf(p) == p \o <<"/", "M">>
RxOf(p) == IF p = PkgA THEN 10 ELSE 20

Streams == {"monitor", "screenshot", "log"}


\* Logcat lines.  A line, stripped, is the sequence of its parts
\* (line.split()); a part is a sequence of symbols, a symbol being a
\* character, a decimal number or a word the code looks for.  Blank is a
\* line that strips to nothing.
Blank == << >>

\* The symbols that are decimal numbers, and str.isdigit() of a part.
Numbers == {"11", "22", "99", "19854"}
IsDigit(part) == part # << >> /\ \A i \in 1..Len(part) : part[i] \in Numbers

\* A line of the threadtime layout: date, time, PID, TID, level, the rest.
ThreadTime(pid, lvl, rest) ==
    << << "02-09" >>, << "14:54:50.447" >>, pid, << "19854" >>, lvl >> \o rest

\* The line as text: its parts with a space between them.
RECURSIVE Raw(_)
Raw(line) ==
    IF line = << >> THEN << >>
    ELSE IF Len(line) = 1 THEN line[1]
    ELSE line[1] \o << " " >> \o Raw(Tail(line))

LogLines ==
    { ThreadTime(<< "11" >>, << "E" >>, << << "x" >> >>),
      ThreadTime(<< "22" >>, << "E" >>, << PkgB >>),
      ThreadTime(<< "99" >>, << "V" >>, << << "x" >> >>),
      Blank }

VARIABLES
    running,            \* self.running
    target_package,     \* self.target_package
    current_pids,       \* self.current_pids
    layer_name,         \* self._layer_name
    last_network_data,  \* self._last_network_data  (None or <<bytes, time>>)
    connected,          \* the device answers
    clock,              \* time.time()
    nstarts,            \* start() calls so far
    cpc, fail_count, cts, exc,   \* _collect_loop of each generation
    spc, sts, sres,              \* _screenshot_loop of each generation
    lpc, proc, lexit,            \* _logcat_loop of each generation
    sent, last,                  \* the sink: per stream, parity of the
                                 \* number of events and the timestamp of
                                 \* the latest one (0 before the first)
    sample,                      \* the sink: the latest monitor sample
    last_seen_frame_time,        \* self._last_seen_frame_time (0: not set)
    zero_fps_count,              \* self._zero_fps_count
    tin,                         \* what the device answered in the latest tick
    ftrace,                      \* what _get_fps_and_jank did in that tick
    stale_run,                   \* stale frame-timing ticks in a row so far
    idle_run,                    \* stale ticks since a tick found a new frame
                                 \* or the watchdog cleared the layer
    call,                        \* a function of the module called on its own:
                                 \* its name, argument and, when done, result
    logged,                      \* the sink: the latest line the log loop read
                                 \* and the log event delivered for it
    valid_gpu_path,              \* self._valid_gpu_path (None: not set)
    endpoint                     \* websocket_endpoint of main.py: the platform
                                 \* of its collector, data_queue, the CSV
                                 \* writer and the file it writes, and the
                                 \* event it took last

vars == << running, target_package, current_pids, layer_name,
           last_network_data, connected, clock, nstarts,
           cpc, fail_count, cts, exc, spc, sts, sres, lpc, proc, lexit,
           sent, last, sample, last_seen_frame_time, zero_fps_count,
           tin, ftrace, stale_run, idle_run, call, logged, valid_gpu_path,
           endpoint >>

session == << target_package, current_pids, layer_name, last_network_data >>
cvars == << cpc, fail_count, cts, exc >>
svars == << spc, sts, sres >>
lvars == << lpc, proc, lexit >>
sink == << sent, last >>
env == << connected, clock >>

\* State that only a whole tick taken as one step (CollectTick) keeps: the
\* content of the sample, the frame-timing engine's memory and the record
\* of what the tick met.
engine == << sample, last_seen_frame_time, zero_fps_count, tin, ftrace,
            stale_run, idle_run, call, logged, valid_gpu_path >>
ticked == << engine, endpoint >>

\* --------------------------------------------------------------- scheduling
\* pc values of _collect_loop at which a synchronous device.shell() call of
\* that loop has been issued and has not returned.
ShellPcs == {"probe", "discover", "pgrep", "top", "mem", "fps", "gpu", "bat", "net"}

\* The event loop's thread is inside a synchronous shell call.
InShell == \E g \in Gens : cpc[g] \in ShellPcs

\* A coroutine (or a websocket message handler) can be scheduled.
LoopFree == ~InShell

\* self._callback(event): the sink receives the event.
Emit(s, ev) ==
    /\ sent' = [sent EXCEPT ![s] = 1 - @]
    /\ last' = [last EXCEPT ![s] = ev.timestamp]

Delivered(s) == sent'[s] # sent[s]

\* ------------------------------------------------------------ collector API
\* The collector is driven by the websocket handler of main.py, a coroutine
\* of the same event loop.

\* start(): running = True and three create_task calls.
start(g) ==
    /\ running' = TRUE
    /\ cpc' = [cpc EXCEPT ![g] = "new"]
    /\ spc' = [spc EXCEPT ![g] = "new"]
    /\ lpc' = [lpc EXCEPT ![g] = "new"]

\* Message {"type": "start", "target": p}: set_target(p), and start() when
\* the collector is not running.
StartCollector(p) ==
    /\ LoopFree
    /\ target_package' = p
    /\ IF running
       THEN UNCHANGED << running, nstarts, cpc, spc, lpc >>
       ELSE /\ nstarts < MaxStarts
            /\ nstarts' = nstarts + 1
            /\ start(nstarts + 1)
    /\ UNCHANGED << current_pids, layer_name, last_network_data, env,
                    fail_count, cts, exc, sts, sres, proc, lexit, sink >>

\* The message as the collector sees it; what it does to the CSV file is
\* RecordStart below.
MsgStart(p) == StartCollector(p) /\ UNCHANGED ticked

\* Message {"type": "stop"}: stop(), which is `self.running = False`.
MsgStop ==
    /\ LoopFree
    /\ running' = FALSE
    /\ UNCHANGED << session, env, nstarts, cvars, svars, lvars, sink >>
    /\ UNCHANGED ticked

\* -------------------------------------------------------------- environment
Disconnect ==
    /\ connected
    /\ connected' = FALSE
    /\ UNCHANGED << running, session, clock, nstarts, cvars, svars, lvars, sink >>
    /\ UNCHANGED ticked

Reconnect ==
    /\ ~connected
    /\ connected' = TRUE
    /\ UNCHANGED << running, session, clock, nstarts, cvars, svars, lvars, sink >>
    /\ UNCHANGED ticked

Tick ==
    /\ clock < MaxClock
    /\ clock' = clock + 1
    /\ UNCHANGED << running, session, connected, nstarts, cvars, svars, lvars, sink >>
    /\ UNCHANGED ticked

\* ------------------------------------------------------------ _collect_loop
\* `if fail_count > 3:` the loop tries to reconnect before it samples.
FailLimit == 3

ReconnectNeededEarly(fc) == fc >= FailLimit

ReconnectNeeded(fc) == fc > FailLimit

\* `fail_count = 10`: a TransportLost error forces a reconnect next time.
ForcedCount == 10

\* Sampler steps whose except clause re-raises an error with "not found" or
\* "offline" in its text: _get_top_package, _get_cpu_usage (the top command),
\* _get_memory_usage, _get_gpu_usage, _get_battery_info (dumpsys battery).
\* _refresh_pids ("pgrep"), _get_fps_and_jank ("fps") and every shell command
\* of _get_network_usage ("net") sit under an except clause that swallows it.
ReRaisesNotMem == {"discover", "top", "gpu", "bat"}

ReRaises == {"discover", "top", "mem", "gpu", "bat"}

\* What a shell command can do, given the device.
Outcomes == IF connected THEN {"ok", "err", "lost"} ELSE {"lost"}

\* First command of _collect_once for the current target.
FirstStep(tp) == IF tp = None THEN "discover" ELSE "pgrep"

AbortEndsLoop(g, kind) ==
    /\ fail_count' = [fail_count EXCEPT ![g] = IF kind = "lost" THEN ForcedCount ELSE @ + 1]
    /\ exc' = [exc EXCEPT ![g] = kind]
    /\ cpc' = [cpc EXCEPT ![g] = "done"]
    /\ UNCHANGED << cts, sink >>

\* The except clause of _collect_loop, then `await asyncio.sleep(1)`.
Abort(g, kind) ==
    /\ fail_count' = [fail_count EXCEPT ![g] = IF kind = "lost" THEN ForcedCount ELSE @ + 1]
    /\ exc' = [exc EXCEPT ![g] = kind]
    /\ cpc' = [cpc EXCEPT ![g] = "wait"]
    /\ UNCHANGED << cts, sink >>

\* _collect_once returned: the callback, `fail_count = 0`, sleep(1).  A
\* callback that raises is the loop's "unknown error".
Finish(g, tp) ==
    \/ /\ Emit("monitor", [type |-> "monitor", timestamp |-> cts[g], package |-> tp])
       /\ fail_count' = [fail_count EXCEPT ![g] = 0]
       /\ cpc' = [cpc EXCEPT ![g] = "wait"]
       /\ UNCHANGED << cts, exc >>
    \/ Abort(g, "other")

\* A sampler step that keeps no session state: on to the next command, or
\* out of the tick when it re-raises TransportLost.
Pass(g, here, next) ==
    /\ cpc[g] = here
    /\ \E o \in Outcomes :
         IF o = "lost" /\ here \in ReRaises
         THEN Abort(g, "lost")
         ELSE /\ cpc' = [cpc EXCEPT ![g] = next]
              /\ UNCHANGED << fail_count, cts, exc, sink >>

\* `while self.running:` after task creation or a sleep, then either the
\* reconnect branch or _collect_once up to its first shell command.
CollectHead(g) ==
    /\ LoopFree
    /\ cpc[g] \in {"new", "wait", "sleep2"}
    /\ IF ~running
       THEN /\ cpc' = [cpc EXCEPT ![g] = "done"]
            /\ fail_count' = [fail_count EXCEPT ![g] = 0]
            /\ cts' = [cts EXCEPT ![g] = 0]
            /\ exc' = [exc EXCEPT ![g] = "none"]
       ELSE IF ReconnectNeeded(fail_count[g])
       THEN /\ cpc' = [cpc EXCEPT ![g] = "probe"]
            /\ UNCHANGED << fail_count, cts, exc >>
       ELSE /\ cpc' = [cpc EXCEPT ![g] = FirstStep(target_package)]
            /\ cts' = [cts EXCEPT ![g] = clock]
            /\ exc' = [exc EXCEPT ![g] = "none"]
            /\ UNCHANGED fail_count
    /\ UNCHANGED << running, session, env, nstarts, svars, lvars, sink >>
    /\ UNCHANGED ticked

ProbeKeepsCount(g) ==
    /\ cpc[g] = "probe"
    /\ \E o \in Outcomes :
         IF o = "ok"
         THEN /\ cpc' = [cpc EXCEPT ![g] = FirstStep(target_package)]
              /\ cts' = [cts EXCEPT ![g] = clock]
              /\ exc' = [exc EXCEPT ![g] = "none"]
              /\ UNCHANGED fail_count
         ELSE /\ cpc' = [cpc EXCEPT ![g] = "sleep2"]
              /\ UNCHANGED << fail_count, cts, exc >>
    /\ UNCHANGED << running, session, env, nstarts, svars, lvars, sink >>
    /\ UNCHANGED ticked

\* adb.device(...); device.shell("ls"): on success fail_count = 0 and the
\* tick goes on into _collect_once; on any exception sleep(2) and continue.
Probe(g) ==
    /\ cpc[g] = "probe"
    /\ \E o \in Outcomes :
         IF o = "ok"
         THEN /\ fail_count' = [fail_count EXCEPT ![g] = 0]
              /\ cpc' = [cpc EXCEPT ![g] = FirstStep(target_package)]
              /\ cts' = [cts EXCEPT ![g] = clock]
              /\ exc' = [exc EXCEPT ![g] = "none"]
         ELSE /\ cpc' = [cpc EXCEPT ![g] = "sleep2"]
              /\ UNCHANGED << fail_count, cts, exc >>
    /\ UNCHANGED << running, session, env, nstarts, svars, lvars, sink >>
    /\ UNCHANGED ticked

\* _get_top_package: a package, nothing, or TransportLost.
Discover(g) ==
    /\ cpc[g] = "discover"
    /\ \E o \in Outcomes :
         \/ /\ o = "ok"
            /\ \E p \in Packages :
                 /\ target_package' = p
                 /\ cpc' = [cpc EXCEPT ![g] = "pgrep"]
                 /\ UNCHANGED << fail_count, cts, exc, sink >>
         \/ /\ o \in {"ok", "err"}
            /\ target_package' = None
            /\ Finish(g, None)
         \/ /\ o = "lost"
            /\ Abort(g, "lost")
            /\ UNCHANGED target_package
    /\ UNCHANGED << running, current_pids, layer_name, last_network_data,
                    env, nstarts, svars, lvars >>
    /\ UNCHANGED ticked

\* `pgrep -f <package>` prints the processes whose command line has the
\* package name in it.
PgrepOut(p) == UNION { PidsOf(q) : q \in { r \in Packages : InStr(p, r) } }

\* _refresh_pids inside _get_cpu_usage: `except Exception:` empties the PID
\* set whatever the error; with no PID the CPU sampler returns at once.
Pgrep(g) ==
    /\ cpc[g] = "pgrep"
    /\ \E o \in Outcomes :
         /\ current_pids' \in (IF o = "ok" THEN {PgrepOut(target_package), {}} ELSE {{}})
         /\ cpc' = [cpc EXCEPT ![g] = IF current_pids' = {} THEN "mem" ELSE "top"]
    /\ UNCHANGED << running, target_package, layer_name, last_network_data,
                    env, nstarts, fail_count, cts, exc, svars, lvars, sink >>
    /\ UNCHANGED ticked

\* `top -b -n 1 -p <pids>` in _get_cpu_usage.
Top(g) ==
    /\ Pass(g, "top", "mem")
    /\ UNCHANGED << running, session, env, nstarts, svars, lvars >>
    /\ UNCHANGED ticked

\* `dumpsys meminfo <package>` in _get_memory_usage.
Mem(g) ==
    /\ Pass(g, "mem", "fps")
    /\ UNCHANGED << running, session, env, nstarts, svars, lvars >>
    /\ UNCHANGED ticked

\* _get_fps_and_jank: the layer is rescanned when none is cached or the
\* cached name does not contain the package; any exception, a dump of fewer
\* than 2 lines and the zero-FPS watchdog clear it.  Nothing is re-raised.
Fps(g) ==
    /\ cpc[g] = "fps"
    /\ LET should_scan == layer_name = None \/ ~InStr(target_package, layer_name)
           found == IF should_scan THEN LayerOf(target_package) ELSE layer_name
       IN \E o \in Outcomes :
            layer_name' \in (IF o = "ok" THEN {found, None} ELSE {None})
    /\ cpc' = [cpc EXCEPT ![g] = "gpu"]
    /\ UNCHANGED << running, target_package, current_pids, last_network_data,
                    env, nstarts, fail_count, cts, exc, svars, lvars, sink >>
    /\ UNCHANGED ticked

\* `cat <gpu path>` in _get_gpu_usage.
Gpu(g) ==
    /\ Pass(g, "gpu", "bat")
    /\ UNCHANGED << running, session, env, nstarts, svars, lvars >>
    /\ UNCHANGED ticked

\* `dumpsys battery` in _get_battery_info.
Bat(g) ==
    /\ Pass(g, "bat", "net")
    /\ UNCHANGED << running, session, env, nstarts, svars, lvars >>
    /\ UNCHANGED ticked

\* _get_network_usage: counters found -> they become the baseline; none of
\* the three sources answers -> the baseline is dropped.  Every shell
\* command sits in its own try/except, so nothing is re-raised.  Then
\* _collect_once returns and the loop delivers.
Net(g) ==
    /\ cpc[g] = "net"
    /\ \E o \in Outcomes :
         last_network_data' =
            IF o = "ok"
            THEN << RxOf(target_package), clock >>
            ELSE None
    /\ Finish(g, target_package)
    /\ UNCHANGED << running, target_package, current_pids, layer_name,
                    env, nstarts, svars, lvars >>
    /\ UNCHANGED ticked

\* ---------------------------------------------------------- _screenshot_loop
\* `while self.running:`; timestamp; run_in_executor(_take_screenshot).
ShotHead(g) ==
    /\ LoopFree
    /\ spc[g] \in {"new", "wait"}
    /\ IF ~running
       THEN /\ spc' = [spc EXCEPT ![g] = "done"]
            /\ sts' = [sts EXCEPT ![g] = 0]
            /\ sres' = [sres EXCEPT ![g] = "none"]
       ELSE /\ spc' = [spc EXCEPT ![g] = "capture"]
            /\ sts' = [sts EXCEPT ![g] = clock]
            /\ sres' = [sres EXCEPT ![g] = "none"]
    /\ UNCHANGED << running, session, env, nstarts, cvars, lvars, sink >>
    /\ UNCHANGED ticked

\* _take_screenshot on an executor thread: the JPEG is saved; or no file is
\* written (no image, or an error that is only logged); or TransportLost is
\* re-raised into the awaiting coroutine.
Capture(g) ==
    /\ spc[g] = "capture"
    /\ \E o \in Outcomes :
         sres' = [sres EXCEPT ![g] =
                    IF o = "ok" THEN "saved" ELSE IF o = "err" THEN "nofile" ELSE "lost"]
    /\ spc' = [spc EXCEPT ![g] = "resume"]
    /\ UNCHANGED << running, session, env, nstarts, cvars, sts, lvars, sink >>
    /\ UNCHANGED ticked

\* The coroutine resumes: the callback unless the future raised; sleep(2).
ShotResume(g) ==
    /\ LoopFree
    /\ spc[g] = "resume"
    /\ IF sres[g] = "lost"
       THEN UNCHANGED sink
       ELSE \/ Emit("screenshot", [type |-> "screenshot", timestamp |-> sts[g],
                                   file |-> sres[g]])
            \/ UNCHANGED sink
    /\ spc' = [spc EXCEPT ![g] = "wait"]
    /\ UNCHANGED << running, session, env, nstarts, cvars, sts, sres, lvars >>
    /\ UNCHANGED ticked

\* -------------------------------------------------------------- _logcat_loop
\* The level of a line: parts[4] mapped when there are 5 parts, "info" by
\* default.
Level(line) ==
    IF Len(line) < 5 THEN "info"
    ELSE CASE line[5] = << "E" >> -> "error"
           [] line[5] = << "W" >> -> "warn"
           [] line[5] = << "D" >> -> "debug"
           [] line[5] = << "V" >> -> "verbose"
           [] OTHER -> "info"

\* `"FATAL EXCEPTION" in line or "ANR in" in line or "AndroidRuntime" in line`
FatalException == << "FATAL", " ", "EXCEPTION" >>
AnrIn == << "ANR", " ", "in" >>
AndroidRuntime == << "AndroidRuntime" >>
is_crash(line) ==
    \/ InStr(FatalException, Raw(line))
    \/ InStr(AnrIn, Raw(line))
    \/ InStr(AndroidRuntime, Raw(line))

\* `parts[2] if len(parts) >= 3 and parts[2].isdigit() else None`
log_pid(line) == IF Len(line) >= 3 /\ IsDigit(line[3]) THEN line[3] ELSE None

\* `log_pid not in self.current_pids`, a PID being one number.
NotInPids(pid) == ~(Len(pid) = 1 /\ pid[1] \in current_pids)

KeepWarnings(line) ==
    /\ Level(line) \in {"error", "warn"} \/ is_crash(line)
    /\ \/ target_package = None
       \/ /\ current_pids # {}
          /\ \/ log_pid(line) = None
             \/ ~NotInPids(log_pid(line))
             \/ is_crash(line) /\ InStr(target_package, Raw(line))
       \/ /\ current_pids = {}
          /\ InStr(target_package, Raw(line))

KeepWhenNoPids(line) ==
    /\ Level(line) = "error" \/ is_crash(line)
    /\ \/ target_package = None
       \/ /\ current_pids # {}
          /\ \/ log_pid(line) = None
             \/ ~NotInPids(log_pid(line))
             \/ is_crash(line) /\ InStr(target_package, Raw(line))
       \/ current_pids = {}

\* The filter between "Filter Logic Start" and "Filter Logic End": TRUE when
\* the line goes on to the callback.
Keep(line) ==
    /\ Level(line) = "error" \/ is_crash(line)
    /\ \/ target_package = None
       \/ /\ current_pids # {}
          /\ \/ log_pid(line) = None
             \/ ~NotInPids(log_pid(line))
             \/ is_crash(line) /\ InStr(target_package, Raw(line))
       \/ /\ current_pids = {}
          /\ InStr(target_package, Raw(line))

\* The dict the callback gets for a line.
LogEvent(line) ==
    [type |-> "log", timestamp |-> clock, level |-> Level(line),
     message |-> Raw(line), is_crash |-> is_crash(line)]

\* The finally clause without terminate() and wait().
LogLeaveKeeps(g, why) ==
    /\ lpc' = [lpc EXCEPT ![g] = "done"]
    /\ UNCHANGED proc
    /\ lexit' = [lexit EXCEPT ![g] = why]

\* The finally clause: terminate the child and await it; the task ends.
LogLeave(g, why) ==
    /\ lpc' = [lpc EXCEPT ![g] = "done"]
    /\ proc' = [proc EXCEPT ![g] = IF @ = "alive" THEN "exited" ELSE @]
    /\ lexit' = [lexit EXCEPT ![g] = why]

\* `while self.running:` and, when it holds, `await readline()`.
LogAgain(g) ==
    IF running
    THEN /\ lpc' = [lpc EXCEPT ![g] = "read"]
         /\ UNCHANGED << proc, lexit >>
    ELSE LogLeave(g, "stopped")

\* The task starts: `logcat -c` (errors ignored), then it awaits
\* create_subprocess_exec("adb", ..., "logcat", ...).
LogStart(g) ==
    /\ LoopFree
    /\ lpc[g] = "new"
    /\ lpc' = [lpc EXCEPT ![g] = "spawn"]
    /\ UNCHANGED << running, session, env, nstarts, cvars, svars, proc, lexit, sink >>
    /\ UNCHANGED ticked

\* The child exists (or its creation raised); first `while self.running:`.
LogSpawned(g) ==
    /\ LoopFree
    /\ lpc[g] = "spawn"
    /\ \/ IF running
          THEN /\ proc' = [proc EXCEPT ![g] = "alive"]
               /\ lpc' = [lpc EXCEPT ![g] = "read"]
               /\ UNCHANGED lexit
          ELSE /\ lpc' = [lpc EXCEPT ![g] = "done"]
               /\ proc' = [proc EXCEPT ![g] = "exited"]
               /\ lexit' = [lexit EXCEPT ![g] = "stopped"]
       \/ LogLeave(g, "nochild")
    /\ UNCHANGED << running, session, env, nstarts, cvars, svars, sink >>
    /\ UNCHANGED ticked

\* readline() returns a line of the device's log: blank -> continue; dropped
\* by the filter -> continue; else the callback with a fresh timestamp.
LogHandle(g, line) ==
    /\ LoopFree
    /\ lpc[g] = "read"
    /\ connected
    /\ IF line # Blank /\ Keep(line)
       THEN /\ Emit("log", LogEvent(line))
            /\ LogAgain(g)
       ELSE /\ UNCHANGED sink
            /\ LogAgain(g)
    /\ UNCHANGED << running, session, env, nstarts, cvars, svars >>

LogLine(g, line) == LogHandle(g, line) /\ UNCHANGED ticked

\* The same with the sink keeping what it got: the line read, and the event
\* delivered for it (None when there was none); n tells one read from the
\* next.
LogSeen(g, line) ==
    /\ LogHandle(g, line)
    /\ logged' = [n |-> 1 - logged.n, line |-> line,
                  event |-> IF line # Blank /\ Keep(line)
                            THEN [level |-> Level(line), message |-> Raw(line),
                                  is_crash |-> is_crash(line)]
                            ELSE [level |-> "", message |-> << >>, is_crash |-> FALSE]]
    /\ UNCHANGED << sample, last_seen_frame_time, zero_fps_count, tin, ftrace,
                    stale_run, idle_run, call, valid_gpu_path, endpoint >>

\* readline() returns b"" (or at_eof()): break.
LogEof(g) ==
    /\ LoopFree
    /\ lpc[g] = "read"
    /\ LogLeave(g, "eof")
    /\ UNCHANGED << running, session, env, nstarts, cvars, svars, sink >>
    /\ UNCHANGED ticked

\* An exception inside the while loop (readline() or the callback raises):
\* the try statement encloses the whole loop, so `except Exception` logs it
\* outside the loop and the finally clause runs.
LogError(g) ==
    /\ LoopFree
    /\ lpc[g] = "read"
    /\ LogLeave(g, "error")
    /\ UNCHANGED << running, session, env, nstarts, cvars, svars, sink >>
    /\ UNCHANGED ticked

\* -------------------------------------------------------- _get_fps_and_jank
\* The frame-timing engine as the function it is: from the session (cached
\* layer, last seen frame time, zero-FPS count) and what the device answers
\* (the layer scan and the latency dump) to the result and the new session.

\* `refresh_period = 16666666` when line 0 is no positive integer.
DefaultPeriod == 16666666

\* `threshold = 1_000_000_000`: the window is one second of nanoseconds.
Threshold == 1000000000

\* `if self._zero_fps_count >= 5`
WatchdogLimit == 5

\* A line of `dumpsys SurfaceFlinger --latency`.  kind is
\*   "num"      one integer, t (what line 0 should be);
\*   "row"      three columns, the third is the integer t (0: not submitted);
\*   "pending"  three columns, the third is 2^63 - 1;
\*   "bad"      three columns, the third is no integer;
\*   "text"     anything else.
Line(kind, t) == [kind |-> kind, t |-> t, c2 |-> t]

\* 9223372036854775807 where it stands in the second column of a line: the
\* largest integer of the model.
Int64Max == 2147483647

\* A three-column line with parts[1] = c2 and parts[2] = c3, and one whose
\* parts[2] is 2^63 - 1.
Frame(c2, c3) == [kind |-> "row", t |-> c3, c2 |-> c2]
Pending(c2) == [kind |-> "pending", t |-> 0, c2 |-> c2]

\* `int(lines[0])`, with the default for a value <= 0 or a ValueError.
RefreshPeriod(line) ==
    IF line.kind = "num" /\ line.t > 0 THEN line.t ELSE DefaultPeriod

\* `int(lines[0])` raises (and the inner except catches it).
PeriodRaises(line) == line.kind # "num"

\* `for line in lines[1:]`: int(parts[2]) of a three-column line raises.
RowRaises(lines) ==
    \E i \in 2..Len(lines) : lines[i].kind = "bad"

\* valid_lines: the present times of the three-column lines after line 0
\* that are above 0 and below 2^63 - 1, in input order.
RECURSIVE ValidFrom(_, _)
ValidFrom(lines, i) ==
    IF i > Len(lines) THEN << >>
    ELSE IF lines[i].kind = "row" /\ lines[i].t > 0
         THEN << lines[i].t >> \o ValidFrom(lines, i + 1)
         ELSE ValidFrom(lines, i + 1)

valid_lines(lines) == ValidFrom(lines, 2)

\* `for t in reversed(valid_lines)`: insert at the front while
\* last_frame_time - t < threshold, break at the first t that is not.
\* WindowStart is the index of the first frame of the window.
RECURSIVE WindowStart(_, _, _)
WindowStart(valid, lastt, i) ==
    IF i >= 1 /\ lastt - valid[i] < Threshold
    THEN WindowStart(valid, lastt, i - 1)
    ELSE i + 1

frames_in_bound(valid) ==
    LET Near(t) == valid[Len(valid)] - t < Threshold
    IN SelectSeq(valid, Near)

frames_in_window(valid) ==
    SubSeq(valid, WindowStart(valid, valid[Len(valid)], Len(valid)), Len(valid))

\* The loop over adjacent frames of the window: jank_count, excess_time and
\* total_duration_sum after index i.
RECURSIVE Durations(_, _, _)
Durations(w, P, i) ==
    IF i < 2 THEN [jank |-> 0, excess |-> 0, total |-> 0]
    ELSE LET acc == Durations(w, P, i - 1)
             duration == w[i] - w[i - 1]
         IN [jank |-> acc.jank + (IF duration > 2 * P THEN 1 ELSE 0),
             excess |-> acc.excess + (IF duration > P THEN duration - P ELSE 0),
             total |-> acc.total + duration]

\* a * m = q * b + r with 0 <= r < b, for 0 <= a < b, by doubling, so that
\* no intermediate value leaves 32 bits while b is below 2^30.
RECURSIVE MulDiv(_, _, _)
MulDiv(a, m, b) ==
    IF m = 0 THEN [q |-> 0, r |-> 0]
    ELSE LET h == MulDiv(a, m \div 2, b)
             r2 == 2 * h.r
             d == IF r2 >= b THEN [q |-> 2 * h.q + 1, r |-> r2 - b]
                             ELSE [q |-> 2 * h.q, r |-> r2]
             r3 == d.r + a
         IN IF m % 2 = 0 THEN d
            ELSE IF r3 >= b THEN [q |-> d.q + 1, r |-> r3 - b]
                            ELSE [q |-> d.q, r |-> r3]

StutterRateUncapped(excess, total) ==
    IF excess >= total THEN 1000 * (excess \div total)
    ELSE LET x == MulDiv(excess, 1000, total)
         IN IF 2 * x.r > total THEN x.q + 1
            ELSE IF 2 * x.r = total /\ x.q % 2 = 1 THEN x.q + 1
            ELSE x.q

StutterRateTruncated(excess, total) ==
    IF excess >= total THEN 1000 ELSE MulDiv(excess, 1000, total).q

\* round(min(excess / total * 100.0, 100.0), 1) for total > 0, in tenths of
\* a percent; a value exactly between two tenths goes to the even one.
StutterRate(excess, total) ==
    IF excess >= total THEN 1000
    ELSE LET x == MulDiv(excess, 1000, total)
         IN IF 2 * x.r > total THEN x.q + 1
            ELSE IF 2 * x.r = total /\ x.q % 2 = 1 THEN x.q + 1
            ELSE x.q

\* `result = {"fps": 0, "jank": 0, "stutter": 0.0}`; stutter in tenths.
ZeroResult == [fps |-> 0, jank |-> 0, stutter |-> 0]

\* Lines 530-556: jank and stutter of a window.
JankAndStutter(w, P) ==
    LET acc == Durations(w, P, Len(w))
    IN [fps |-> Len(w),
        jank |-> acc.jank,
        stutter |-> IF acc.total > 0 THEN StutterRate(acc.excess, acc.total) ELSE 0]

\* `dumpsys SurfaceFlinger --list`: the layers of the device, in order.
DeviceLayers == << LayerOf(PkgA), LayerOf(PkgB) >>

\* What a shell command gives: its output lines, or an exception ("err"),
\* or TransportLost ("lost").
Answer(lines) == [o |-> "ok", lines |-> lines]
Failure(o) == [o |-> o, lines |-> << >>]

\* Texts the scan looks for in a layer name, each one symbol of a name.
SplashScreen == << "Splash Screen" >>
BackgroundFor == << "Background for" >>
SurfaceView == << "SurfaceView" >>
Slash == << "/" >>

\* The indices i of seq, in order, whose element passes Test.
RECURSIVE Picked(_, _, _)
Picked(seq, Test(_), i) ==
    IF i > Len(seq) THEN << >>
    ELSE IF Test(seq[i]) THEN << i >> \o Picked(seq, Test, i + 1)
    ELSE Picked(seq, Test, i + 1)

\* More symbols of a line of the list: a blank, and the wrapper some
\* builds put around a layer, `RequestedLayerState{<name> <fields>}`.
Space == " "
Hash == "#"
Wrapper == "RequestedLayerState{"
Brace == "}"

\* str.strip()
RECURSIVE strip(_)
strip(text) ==
    IF text = << >> THEN text
    ELSE IF Head(text) = Space THEN strip(Tail(text))
    ELSE IF text[Len(text)] = Space THEN strip(SubSeq(text, 1, Len(text) - 1))
    ELSE text

\* str.split(): the runs of symbols between blanks.
RECURSIVE split(_)
split(text) ==
    LET t == strip(text)
    IN IF t = << >> THEN << >>
       ELSE LET n == IF \E i \in 1..Len(t) : t[i] = Space
                     THEN (CHOOSE i \in 1..Len(t) :
                             t[i] = Space /\ \A j \in 1..(i - 1) : t[j] # Space) - 1
                     ELSE Len(t)
            IN << SubSeq(t, 1, n) >> \o split(SubSeq(t, n + 1, Len(t)))

\* re.search(r"RequestedLayerState\{(.+?)\}", layer): where the leftmost
\* match starts (0: no match), and its group, which ends before the first
\* brace that follows at least one symbol.
Closes(layer, i, j) == j >= i + 2 /\ j <= Len(layer) /\ layer[j] = Brace
MatchAt(layer, i) == layer[i] = Wrapper /\ \E j \in 1..Len(layer) : Closes(layer, i, j)
MatchStart(layer) ==
    IF \E i \in 1..Len(layer) : MatchAt(layer, i)
    THEN CHOOSE i \in 1..Len(layer) :
           MatchAt(layer, i) /\ \A k \in 1..(i - 1) : ~MatchAt(layer, k)
    ELSE 0
Group(layer, i) ==
    LET j == CHOOSE j \in 1..Len(layer) :
               Closes(layer, i, j) /\ \A k \in 1..(j - 1) : ~Closes(layer, i, k)
    IN SubSeq(layer, i + 1, j - 1)

\* The first part that holds `#`, else the whole content.
RECURSIVE KeyPart(_, _, _)
KeyPart(parts, i, content) ==
    IF i > Len(parts) THEN content
    ELSE IF \E k \in 1..Len(parts[i]) : parts[i][k] = Hash THEN parts[i]
    ELSE KeyPart(parts, i + 1, content)

\* clean_name of a line of the list.
clean_name(layer) ==
    IF MatchStart(layer) = 0 THEN strip(layer)
    ELSE CHOOSE name \in { KeyPart(split(content), 1, content) :
                             content \in { Group(layer, MatchStart(layer)) } } : TRUE

\* valid_candidates[:10] as indices into the list of layers: the lines
\* that hold the package, without those whose clean name holds Splash
\* Screen or Background for; those whose clean name holds SurfaceView or /
\* first, the order otherwise kept (a stable sort); the first 10.
ProbeLimit == 10

valid_candidates(package, layers) ==
    LET IsCandidate(c, name) == /\ InStr(package, c)
                                /\ ~InStr(SplashScreen, name)
                                /\ ~InStr(BackgroundFor, name)
        Key(name) == InStr(SurfaceView, name) \/ InStr(Slash, name)
        Front(c) == \E name \in { clean_name(c) } : IsCandidate(c, name) /\ Key(name)
        Back(c) == \E name \in { clean_name(c) } : IsCandidate(c, name) /\ ~Key(name)
        sorted == Picked(layers, Front, 1) \o Picked(layers, Back, 1)
    IN SubSeq(sorted, 1, IF Len(sorted) < ProbeLimit THEN Len(sorted) ELSE ProbeLimit)

\* The loop over the lines of a probe's output: int() of a three-column
\* line raises.
ProbeRaises(lines) == \E i \in 1..Len(lines) : lines[i].kind = "bad"

\* last_ts after the lines up to i: the largest, from 0, of parts[2] of the
\* three-column lines, parts[1] standing in where parts[2] is 2^63 - 1.
RECURSIVE last_ts(_, _)
last_ts(lines, i) ==
    IF i = 0 THEN 0
    ELSE LET before == last_ts(lines, i - 1)
             ts == IF lines[i].kind = "pending" THEN lines[i].c2 ELSE lines[i].t
         IN IF lines[i].kind \in {"row", "pending"} /\ ts > before THEN ts ELSE before

\* What `dumpsys SurfaceFlinger --latency <layer> | tail -n 5` of the scan
\* can give for one layer in the specifications of the engine: rows whose
\* latest time is 1 or 2, an error, or TransportLost.
ProbeT1 == Answer(<< Line("num", DefaultPeriod), Frame(1, 1) >>)
ProbeT2 == Answer(<< Line("num", DefaultPeriod), Frame(1, 2) >>)
ProbeCases == { ProbeT1, ProbeT2, Failure("err"), Failure("lost") }

\* The timestamp the scan observes in the answer o of a probe.
ProbeTs(o) == last_ts(o.lines, Len(o.lines))

BetterOrEqual(ts, max_timestamp) == ts >= max_timestamp

\* `if last_ts > max_timestamp`
Better(ts, max_timestamp) == ts > max_timestamp

\* The loop over valid_candidates[:10] from position i, cands holding the
\* indices of the candidates and probes the answer for each layer of the
\* list: TransportLost is re-raised; another exception, of the command or
\* of int(), and an answer of fewer than 2 lines skip the candidate; the
\* larger timestamp wins and the first of equal ones is kept.
RECURSIVE BestLayer(_, _, _, _, _)
BestLayer(layers, cands, probes, i, acc) ==
    IF i > Len(cands) THEN acc
    ELSE LET o == probes[cands[i]]
         IN IF o.o = "lost"
            THEN [acc EXCEPT !.lost = TRUE, !.raised = @ \cup {"transport"}]
            ELSE IF o.o = "err"
            THEN BestLayer(layers, cands, probes, i + 1,
                           [acc EXCEPT !.raised = @ \cup {"probe"}])
            ELSE IF Len(o.lines) < 2
            THEN BestLayer(layers, cands, probes, i + 1, acc)
            ELSE IF ProbeRaises(o.lines)
            THEN BestLayer(layers, cands, probes, i + 1,
                           [acc EXCEPT !.raised = @ \cup {"probe"}])
            ELSE IF Better(ProbeTs(o), acc.ts)
            THEN BestLayer(layers, cands, probes, i + 1,
                           [acc EXCEPT !.layer = clean_name(layers[cands[i]]),
                                       !.ts = ProbeTs(o)])
            ELSE BestLayer(layers, cands, probes, i + 1, acc)

\* _find_active_layer(package) when the device answers sc = [list, layers,
\* probes]: layer is what it returns (None: nothing found), lost: it
\* re-raised TransportLost, raised: where an exception was raised in it
\* ("list": the list command, "probe": the latency command of a candidate
\* or the parsing of its answer, "transport": TransportLost from either).
find_active_layer(package, sc) ==
    IF sc.list = "lost"
    THEN [layer |-> None, ts |-> -1, lost |-> TRUE, raised |-> {"transport"}]
    ELSE IF sc.list = "err"
    THEN [layer |-> None, ts |-> -1, lost |-> FALSE, raised |-> {"list"}]
    ELSE CHOOSE found \in
           { IF best.lost THEN [best EXCEPT !.layer = None] ELSE best :
               best \in { BestLayer(sc.layers, cands, sc.probes, 1,
                                    [layer |-> None, ts |-> -1, lost |-> FALSE,
                                     raised |-> {}]) :
                           cands \in { valid_candidates(package, sc.layers) } } } : TRUE

\* `if not self._layer_name or package not in self._layer_name`
should_scan(package, layer) == layer = None \/ ~InStr(package, layer)

\* `self._last_seen_frame_time == last_frame_time`, the attribute being set.
IsStale(seen, last_frame_time) == seen = last_frame_time

BumpedTwice(zc) == zc + 2

\* `self._zero_fps_count += 1`
Bumped(zc) == zc + 1

WatchdogFiresLate(count) == count > WatchdogLimit

\* `if self._zero_fps_count >= 5`
WatchdogFires(count) == count >= WatchdogLimit

OnErrorKeeps(layer) == layer

\* The outer except clause: `self._layer_name = None`.
OnError(layer) == None

\* What _get_fps_and_jank(package) gives with the cached layer `layer`, the
\* last seen frame time `seen` (0: attribute not set) and the zero-FPS count
\* `zc`, when the device answers the scan with sc and the latency command
\* with dump = [o, lines].  case names the return taken: "nolayer", "short"
\* (fewer than 2 lines), "novalid", "stale", "fresh" (a new last frame), or
\* "error" (the outer except clause).  raised tells where exceptions were
\* raised in the call: in the scan (see find_active_layer), by the latency
\* command ("latency"), by int() of line 0 ("period") or of a row ("row").
\* used and lastt are the layer and the last valid present time of a call
\* that got as far as the staleness test; valid and period are the
\* valid_lines and the refresh_period of a call that found a new frame.
get_fps_and_jank(package, layer, seen, zc, sc, dump) ==
    CHOOSE returned \in {
    LET scans == should_scan(package, layer)
        layer1 == IF scans THEN scan.layer ELSE layer
        early == IF scans THEN scan.raised ELSE {}
        heard == IF PeriodRaises(dump.lines[1]) THEN early \cup {"period"} ELSE early
        Ret(res, l, sn, z, c, r) ==
            [result |-> res, layer |-> l, seen |-> sn, zc |-> z, case |-> c, raised |-> r,
             used |-> IF c \in {"fresh", "stale"} THEN layer1 ELSE None,
             lastt |-> IF c \in {"fresh", "stale"}
                       THEN valid_lines(dump.lines)[Len(valid_lines(dump.lines))] ELSE 0,
             valid |-> IF c = "fresh" THEN valid_lines(dump.lines) ELSE << >>,
             period |-> IF c = "fresh" THEN RefreshPeriod(dump.lines[1]) ELSE 0]
        Error(r) == Ret(ZeroResult, OnError(layer1), seen, zc, "error", r)
    IN IF scans /\ scan.lost THEN Error(early)
       ELSE IF layer1 = None THEN Ret(ZeroResult, None, seen, zc, "nolayer", early)
       ELSE IF dump.o # "ok" THEN Error(early \cup {"latency"})
       ELSE IF Len(dump.lines) < 2 THEN Ret(ZeroResult, None, seen, zc, "short", early)
       ELSE IF RowRaises(dump.lines) THEN Error(heard \cup {"row"})
       ELSE LET valid == valid_lines(dump.lines)
            IN IF valid = << >> THEN Ret(ZeroResult, layer1, seen, zc, "novalid", heard)
               ELSE LET last_frame_time == valid[Len(valid)]
                    IN IF IsStale(seen, last_frame_time)
                       THEN IF WatchdogFires(Bumped(zc))
                            THEN Ret(ZeroResult, None, seen, 0, "stale", heard)
                            ELSE Ret(ZeroResult, layer1, seen, Bumped(zc), "stale", heard)
                       ELSE Ret(JankAndStutter(frames_in_window(valid),
                                               RefreshPeriod(dump.lines[1])),
                                layer1, last_frame_time, 0, "fresh", heard)
    : scan \in { find_active_layer(package, sc) } } : TRUE

\* ------------------------------------------- one iteration of _collect_loop
\* From `while self.running:` to the next sleep there is no await, so one
\* iteration of the metrics loop is one step of the event loop.  CollectTick
\* is that step, the same code as CollectHead .. Net taken at once, and it
\* keeps what those leave out: the content of the sample and the memory of
\* the frame-timing engine.

\* The value of a metric in a sample: the sampler's own value ("real", with
\* what it was measured on), the value it starts from ("neutral": 0, 0.0,
\* {} or the zeroed dict), or a dict filled in part ("partial").
Neutral == [v |-> "neutral", of |-> None]
Real(x) == [v |-> "real", of |-> x]
Partial == [v |-> "partial", of |-> None]

\* The frame-timing part of a sample, with the layer the numbers are of.
FpsValue(f) ==
    [fps |-> f.result.fps, jank |-> f.result.jank, stutter |-> f.result.stutter,
     layer |-> f.used]

\* The dict _collect_once returns before any sampler has run.
NoSample ==
    [package |-> None, cpu |-> Neutral, memory |-> Neutral,
     fps |-> [fps |-> 0, jank |-> 0, stutter |-> 0, layer |-> None],
     gpu |-> Neutral, battery |-> Neutral, network |-> Neutral]

NoTrace == [case |-> "none", raised |-> {}, lastt |-> 0, valid |-> << >>, period |-> 0]

\* What the device can answer to the commands of one iteration.
\*   probe  the `ls` of the reconnect branch;
\*   disc   _get_top_package: a package, nothing, an error, TransportLost;
\*   cpu    pgrep and top: "nopid" pgrep prints nothing, "pgrepfail" pgrep
\*          raises (whatever the error), "topfail"/"toplost" top raises;
\*   bat    "part": a line of `dumpsys battery` after the level line does
\*          not parse;
\*   net    "fail": none of the three counter sources answers;
\*   cb     the callback returns or raises.
DiscCases ==
    { [o |-> "ok", pkg |-> p] : p \in Packages \cup {None} }
    \cup { [o |-> "err", pkg |-> None], [o |-> "lost", pkg |-> None] }
CpuCases == {"ok", "nopid", "pgrepfail", "topfail", "toplost"}
StepCases == {"ok", "err", "lost"}
BatCases == {"ok", "part", "err", "lost"}
NetCases == {"ok", "fail"}

DefaultScan == [list |-> "ok", layers |-> DeviceLayers, probes |-> << ProbeT1, ProbeT1 >>]
ScanCases ==
    { [DefaultScan EXCEPT !.probes = << a, b >>] : a \in ProbeCases, b \in ProbeCases }
    \cup { [DefaultScan EXCEPT !.list = l] : l \in {"err", "lost"} }

\* Two frames 40 ms apart at the default refresh period.
GoodDump ==
    [o |-> "ok", lines |-> << Line("num", DefaultPeriod),
                              Line("row", 100000000), Line("row", 140000000) >>]

\* Every command answered without an error.
Quiet ==
    [probe |-> "ok", disc |-> [o |-> "ok", pkg |-> PkgA], cpu |-> "ok", mem |-> "ok",
     scan |-> DefaultScan, dump |-> GoodDump, gpu |-> "ok", bat |-> "ok",
     net |-> "ok", cb |-> "ok"]

\* The target _collect_once works with when discovery answers a.disc:
\* `if not self.target_package: self.target_package = self._get_top_package()`.
TargetOfNoDiscovery(a) == target_package

TargetOf(a) ==
    IF target_package # None THEN target_package
    ELSE IF a.disc.o = "ok" THEN a.disc.pkg ELSE None

MetricOfKeepsReal(case, real) == real

\* What a sampler returns: its value, or what its except clause returns.
MetricOf(case, real) == IF case = "ok" THEN real ELSE Neutral

\* _get_battery_info returns `info` as far as it was filled in.
BatteryOf(case) ==
    IF case = "ok" THEN Real(None) ELSE IF case = "part" THEN Partial ELSE Neutral

\* The rate of _get_network_usage when the counters were found: computed
\* against the stored baseline if there is one and time has passed.
NetworkOf(tp) ==
    IF last_network_data # None /\ clock > last_network_data[2]
    THEN Real(<< RxOf(tp), last_network_data[1] >>)
    ELSE Neutral

\* ------------------------------------------------------- _get_network_usage
\* The function with its numbers.  What the device answers is, for each
\* of the three counter sources, None (the command raised, or its output
\* was not usable) or the pair << rx, tx >> of byte counters read from it,
\* and whether `dumpsys package` gave a uid.

\* round(n / d, 1) in tenths, for d > 0: to nearest, ties to even.
Tenths(n, d) ==
    LET q == (n * 10) \div d
        r == (n * 10) % d
    IN IF 2 * r > d \/ (2 * r = d /\ q % 2 = 1) THEN q + 1 ELSE q

\* Without `if diff_rx < 0: diff_rx = 0`.
Unclamped(diff) == diff

\* `if diff_rx < 0: diff_rx = 0`
Clamped(diff) == IF diff < 0 THEN 0 ELSE diff

\* The counters of this tick: /proc/uid_stat, else xt_qtaguid (both only
\* with a uid), else /proc/net/dev; None when found_data stays False.
current_counters(in) ==
    IF in.uid /\ in.uid_stat # None THEN in.uid_stat
    ELSE IF in.uid /\ in.qtaguid # None THEN in.qtaguid
    ELSE in.dev

\* `info["rx"] = round(diff_rx / 1024 / time_diff, 1)`, in tenths of KB/s.
Rate(current, before, time_diff) == Tenths(Clamped(current - before), 1024 * time_diff)

\* With the baseline kept when no counters were found.
BaselineKept(found, before, now) ==
    IF found # None THEN << found[1], found[2], now >> ELSE before

\* `self._last_network_data = (current_rx, current_tx, time.time())`, or
\* None when no counters were found.
Baseline(found, before, now) ==
    IF found # None THEN << found[1], found[2], now >> ELSE None

\* The function: info is what it returns, last the baseline it leaves.
get_network_usage(in, before, now) ==
    LET found == current_counters(in)
        rated == found # None /\ before # None /\ now - before[3] > 0
    IN [info |-> IF rated
                 THEN [rx |-> Rate(found[1], before[1], now - before[3]),
                       tx |-> Rate(found[2], before[2], now - before[3])]
                 ELSE [rx |-> 0, tx |-> 0],
        last |-> Baseline(found, before, now)]

\* ----------------------------------------------------------- _get_gpu_usage
\* `gpu_paths`, each as the parts of its text that matter.
gpu_paths ==
    << << "/sys/class/", "kgsl", "/kgsl-3d0/gpubusy" >>,
       << "/sys/class/misc/", "mali0", "/device/utilization" >>,
       << "/sys/kernel/debug/", "mali0", "/ctx/utilization_gp_pp" >>,
       << "/sys/devices/platform/", "google,mali", "/gpu_utilization" >> >>

\* The content of a file is the sequence of its whitespace-separated
\* tokens (output.split()).  A token is
\*   Num(v)   an integer in ASCII digits, with a minus sign when v < 0;
\*   Sup      a superscript digit: str.isdigit() holds, int() and float()
\*            raise ValueError;
\*   Word     anything else.
Num(v) == [k |-> "int", v |-> v]
Sup == [k |-> "sup", v |-> 0]
Word == [k |-> "word", v |-> 0]

\* output.isdigit(): one token (no whitespace inside), all digits.
isdigit(output) ==
    /\ Len(output) = 1
    /\ output[1].k = "sup" \/ (output[1].k = "int" /\ output[1].v >= 0)

\* What a call of the parser gives: a value in tenths, None, or an
\* exception.
Value(v) == [o |-> "value", v |-> v]
NoValue == [o |-> "none", v |-> 0]
Raises == [o |-> "raise", v |-> 0]

\* `if val > 100.0: val = 100.0`
Capped(val) == IF val > 1000 THEN 1000 ELSE val

\* _parse_gpu_from_content(output, path)
parse_gpu_from_content(output, path) ==
    IF InStr(<< "kgsl" >>, path)
    THEN IF Len(output) = 2 /\ output[1].k = "int" /\ output[2].k = "int"
         THEN LET used == output[1].v
                  total == output[2].v
              IN IF total > 0
                 THEN Value(Capped(Tenths(used * 100, total)))
                 ELSE Value(0)
         ELSE NoValue
    ELSE IF isdigit(output)
         THEN IF output[1].k = "int" THEN Value(output[1].v * 10) ELSE Raises
         ELSE NoValue

\* With the cached path ignored.
SkipsNone(cached, path) == FALSE

\* `if hasattr(self, '_valid_gpu_path') and self._valid_gpu_path != path: continue`
Skips(cached, path) == cached # None /\ cached # path

\* The loop over gpu_paths from the i-th on; dev[i] is what `cat` of the
\* i-th path gives (Answer(content), or Failure when the command raises).
\* val is the value returned in tenths, cached the path cached afterwards,
\* raised tells whether an exception left the loop ("transport": re-raised).
RECURSIVE gpu_from(_, _, _)
gpu_from(i, cached, dev) ==
    IF i > Len(gpu_paths)
    THEN [val |-> 0, cached |-> cached, raised |-> "none"]
    ELSE IF Skips(cached, gpu_paths[i]) THEN gpu_from(i + 1, cached, dev)
    ELSE IF dev[i].o # "ok"
    THEN [val |-> 0, cached |-> cached,
          raised |-> IF dev[i].o = "lost" THEN "transport" ELSE "swallowed"]
    ELSE IF dev[i].lines = << >> THEN gpu_from(i + 1, cached, dev)
    ELSE LET val == parse_gpu_from_content(dev[i].lines, gpu_paths[i])
         IN IF val.o = "raise"
            THEN [val |-> 0, cached |-> cached, raised |-> "swallowed"]
            ELSE IF val.o = "value"
            THEN [val |-> val.v, cached |-> gpu_paths[i], raised |-> "none"]
            ELSE gpu_from(i + 1, cached, dev)

get_gpu_usage(cached, dev) == gpu_from(1, cached, dev)

\* ------------------------------------------------------- _parse_cpu_from_top
\* A line of `top` is the sequence of its tokens (line.split()).  A token is
\*   St         one of R, S, I, D, Z, T;
\*   Fl(v)      text that float() converts, without a percent sign; v is
\*              the value in tenths;
\*   Pct(v)     text with a percent sign that float() converts once the
\*              sign is removed ("12%");
\*   PctText    text with a percent sign that float() rejects also without
\*              it ("800%cpu", "5%,", "S[%CPU]");
\*   PidTok, UserTok   the words PID and USER;
\*   Word       anything else.
St == [k |-> "state", v |-> 0]
Fl(v) == [k |-> "float", v |-> v]
Pct(v) == [k |-> "pct", v |-> v]
PctText == [k |-> "pcttext", v |-> 0]
PidTok == [k |-> "PID", v |-> 0]
UserTok == [k |-> "USER", v |-> 0]

\* `"PID" in parts and "USER" in parts`
IsHeader(parts) ==
    /\ \E i \in 1..Len(parts) : parts[i] = PidTok
    /\ \E i \in 1..Len(parts) : parts[i] = UserTok

\* The first loop finds a state character at i whose next token converts:
\* `float(next_part.replace('%', ''))` does not raise.
AnchorAt(parts, i) ==
    /\ i < Len(parts)
    /\ parts[i] = St
    /\ parts[i + 1].k \in {"float", "pct"}

\* "Fallback 1": a token with a percent sign that converts without it.
PercentAt(parts, i) == parts[i].k = "pct"

\* "Fallback 2": nothing found, at least 10 tokens, parts[8] converts and
\* parts[7] is a state character.
FixedColumn(parts) ==
    IF Len(parts) >= 10 /\ parts[9].k = "float" /\ parts[8] = St
    THEN parts[9].v
    ELSE 0

\* What one line adds to total_cpu, in tenths.
LineCpu(parts) ==
    IF Len(parts) < 5 THEN 0
    ELSE IF IsHeader(parts) THEN 0
    ELSE IF \E i \in 1..Len(parts) : AnchorAt(parts, i)
    THEN LET i == CHOOSE i \in 1..Len(parts) :
                     AnchorAt(parts, i) /\ \A j \in 1..(i - 1) : ~AnchorAt(parts, j)
         IN parts[i + 1].v
    ELSE IF \E i \in 1..Len(parts) : PercentAt(parts, i)
    THEN LET i == CHOOSE i \in 1..Len(parts) :
                     PercentAt(parts, i) /\ \A j \in 1..(i - 1) : ~PercentAt(parts, j)
         IN parts[i].v
    ELSE FixedColumn(parts)

\* _parse_cpu_from_top(output), output as the sequence of its lines.
RECURSIVE parse_cpu_from_top(_)
parse_cpu_from_top(lines) ==
    IF lines = << >> THEN 0
    ELSE LineCpu(Head(lines)) + parse_cpu_from_top(Tail(lines))

\* -------------------------------------------------------- _get_memory_usage
\* A line of `dumpsys meminfo` is the sequence of its tokens: words of
\* labels (Lbl), and Num, Sup and Word as above.
Lbl(word) == [k |-> word, v |-> 0]

\* `"Java Heap:" in line` and the like: the words of the label, in a row.
HasLabel(words, line) == InStr([i \in 1..Len(words) |-> Lbl(words[i])], line)

\* The totals before the first line, in KB.
NoMem ==
    [total_pss |-> 0, java_heap |-> 0, native_heap |-> 0, code |-> 0, stack |-> 0,
     graphics |-> 0, private_other |-> 0, system |-> 0, raised |-> FALSE]

\* `if len(parts) >= n: x = int(parts[n - 1])`: the new value of field x, or
\* the exception of int().
IntAt(acc, field, line, n) ==
    IF Len(line) < n THEN acc
    ELSE IF line[n].k = "int" THEN [acc EXCEPT ![field] = line[n].v]
    ELSE [acc EXCEPT !.raised = TRUE]

\* The body of the loop for one line.
MemLine(acc, line) ==
    IF line # << >> /\ line[1] = Lbl("TOTAL") /\ ~HasLabel(<< "PSS:" >>, line)
    THEN IF Len(line) >= 2 /\ isdigit(<< line[2] >>)
         THEN IF line[2].k = "int" THEN [acc EXCEPT !.total_pss = line[2].v]
              ELSE [acc EXCEPT !.raised = TRUE]
         ELSE acc
    ELSE IF HasLabel(<< "Java", "Heap:" >>, line) THEN IntAt(acc, "java_heap", line, 3)
    ELSE IF HasLabel(<< "Native", "Heap:" >>, line) THEN IntAt(acc, "native_heap", line, 3)
    ELSE IF HasLabel(<< "Code:" >>, line) THEN IntAt(acc, "code", line, 2)
    ELSE IF HasLabel(<< "Stack:" >>, line) THEN IntAt(acc, "stack", line, 2)
    ELSE IF HasLabel(<< "Graphics:" >>, line) THEN IntAt(acc, "graphics", line, 2)
    ELSE IF HasLabel(<< "Private", "Other:" >>, line) THEN IntAt(acc, "private_other", line, 3)
    ELSE IF HasLabel(<< "System:" >>, line) THEN IntAt(acc, "system", line, 2)
    ELSE acc

\* The loop over the lines up to the i-th; an exception ends it.
RECURSIVE MemLoop(_, _)
MemLoop(lines, i) ==
    IF i = 0 THEN NoMem
    ELSE CHOOSE after \in
           { IF acc.raised THEN acc ELSE MemLine(acc, lines[i]) :
               acc \in { MemLoop(lines, i - 1) } } : TRUE

\* `{}.get("total", 0.0)` and the empty memory_detail.
EmptyMem ==
    [o |-> "empty", total |-> 0, java |-> 0, native |-> 0, graphics |-> 0,
     code |-> 0, other |-> 0]

\* _get_memory_usage when the command answers out: the dict in tenths of
\* MB (o = "dict"), the empty dict after an exception (o = "empty"), or
\* TransportLost re-raised (o = "lost").
get_memory_usage(out) ==
    IF out.o = "lost" THEN [EmptyMem EXCEPT !.o = "lost"]
    ELSE IF out.o # "ok" THEN EmptyMem
    ELSE CHOOSE dict \in
           { IF acc.raised THEN EmptyMem
             ELSE [o |-> "dict",
                   total |-> Tenths(acc.total_pss, 1024),
                   java |-> Tenths(acc.java_heap, 1024),
                   native |-> Tenths(acc.native_heap, 1024),
                   graphics |-> Tenths(acc.graphics, 1024),
                   code |-> Tenths(acc.code, 1024),
                   other |-> Tenths(acc.private_other + acc.stack + acc.system, 1024)] :
               acc \in { MemLoop(out.lines, Len(out.lines)) } } : TRUE

\* _collect_once with the answers `in`, from the current session: lost is
\* TRUE when it raised TransportLost; the other fields are the session and
\* the locals at that point.
collect_once(in) ==
    LET tp == TargetOf(in)
        S0 == [lost |-> FALSE, target |-> tp, pids |-> current_pids,
               layer |-> layer_name, seen |-> last_seen_frame_time,
               zc |-> zero_fps_count, net |-> last_network_data,
               sample |-> [NoSample EXCEPT !.package = tp], ftrace |-> NoTrace]
    IN IF target_package = None /\ in.disc.o = "lost"
       THEN [S0 EXCEPT !.lost = TRUE, !.target = None]
       ELSE IF tp = None THEN S0
       ELSE
       LET S1 == [S0 EXCEPT
                    !.pids = IF in.cpu \in {"nopid", "pgrepfail"} THEN {} ELSE PgrepOut(tp),
                    !.sample.cpu = MetricOf(in.cpu, Real(tp))]
           S2 == [S1 EXCEPT !.sample.memory = MetricOf(in.mem, Real(tp))]
           S3 == CHOOSE s \in
                   { [S2 EXCEPT !.layer = f.layer, !.seen = f.seen, !.zc = f.zc,
                                !.sample.fps = FpsValue(f),
                                !.ftrace = [case |-> f.case, raised |-> f.raised,
                                            lastt |-> f.lastt,
                                            valid |-> f.valid, period |-> f.period]] :
                     f \in { get_fps_and_jank(tp, layer_name, last_seen_frame_time,
                                              zero_fps_count, in.scan, in.dump) } } : TRUE
           S4 == [S3 EXCEPT !.sample.gpu = MetricOf(in.gpu, Real(None))]
           S5 == [S4 EXCEPT !.sample.battery = BatteryOf(in.bat)]
           S6 == [S5 EXCEPT
                    !.net = IF in.net = "ok" THEN << RxOf(tp), clock >> ELSE None,
                    !.sample.network = MetricOf(in.net, NetworkOf(tp))]
       IN IF in.cpu = "toplost" THEN [S1 EXCEPT !.lost = TRUE]
          ELSE IF in.mem = "lost" THEN [S1 EXCEPT !.lost = TRUE]
          ELSE IF in.gpu = "lost" THEN [S3 EXCEPT !.lost = TRUE]
          ELSE IF in.bat = "lost" THEN [S3 EXCEPT !.lost = TRUE]
          ELSE S6

\* The answers of `a` that this iteration asks for, the target being what
\* it is: no probe without a reconnect, no discovery with a target.
Asked(g, a) ==
    /\ ReconnectNeeded(fail_count[g]) \/ a.probe = "ok"
    /\ target_package # None => a.disc = Quiet.disc
    /\ target_package = None => (a.disc.pkg # None \/ a = [Quiet EXCEPT !.probe = a.probe,
                                                              !.disc = a.disc, !.cb = a.cb])

\* _get_fps_and_jank is reached.
FramesReached(a) ==
    /\ a.probe = "ok"
    /\ TargetOf(a) # None
    /\ a.cpu # "toplost" /\ a.mem # "lost"

\* The scans and dumps the device is asked for: a scan when the engine is
\* reached and should scan, with an answer for every candidate layer; a
\* dump when a layer is there after the scan.
ScansAsked(a, Scans) ==
    IF FramesReached(a) /\ should_scan(TargetOf(a), layer_name)
    THEN { sc \in Scans : \A i \in 1..Len(DeviceLayers) :
                 ~InStr(TargetOf(a), DeviceLayers[i]) => sc.probes[i] = ProbeT1 }
    ELSE {DefaultScan}

DumpsAsked(a, sc, DumpSet) ==
    IF /\ FramesReached(a)
       /\ \/ ~should_scan(TargetOf(a), layer_name)
          \/ find_active_layer(TargetOf(a), sc).layer # None
    THEN DumpSet
    ELSE {GoodDump}

\* One iteration of the loop of generation g, the device answering the
\* samplers with one of Answers, the layer scan with one of Scans and the
\* latency command with one of DumpSet.
CollectTick(g, Answers, Scans, DumpSet) ==
    /\ LoopFree
    /\ cpc[g] \in {"new", "wait", "sleep2"}
    /\ IF ~running
       THEN /\ cpc' = [cpc EXCEPT ![g] = "done"]
            /\ fail_count' = [fail_count EXCEPT ![g] = 0]
            /\ cts' = [cts EXCEPT ![g] = 0]
            /\ exc' = [exc EXCEPT ![g] = "none"]
            /\ UNCHANGED << session, sink, ticked >>
       ELSE \E a \in Answers :
            /\ Asked(g, a)
            /\ IF a.probe # "ok"
               THEN /\ cpc' = [cpc EXCEPT ![g] = "sleep2"]
                    /\ tin' = [in |-> a, end |-> "noprobe"]
                    /\ ftrace' = NoTrace
                    /\ UNCHANGED << session, sink, fail_count, cts, exc, sample,
                                    last_seen_frame_time, zero_fps_count,
                                    stale_run, idle_run, call, logged,
                                    valid_gpu_path, endpoint >>
               ELSE \E sc \in ScansAsked(a, Scans) :
                    \E d \in DumpsAsked(a, sc, DumpSet) :
                    \E r \in { collect_once([a EXCEPT !.scan = sc, !.dump = d]) } :
                    LET end == IF r.lost THEN "lost"
                               ELSE IF a.cb = "raise" THEN "other" ELSE "sample"
                        fc == IF ReconnectNeeded(fail_count[g]) THEN 0 ELSE fail_count[g]
                    IN /\ target_package' = r.target
                       /\ current_pids' = r.pids
                       /\ layer_name' = r.layer
                       /\ last_network_data' = r.net
                       /\ last_seen_frame_time' = r.seen
                       /\ zero_fps_count' = r.zc
                       /\ ftrace' = r.ftrace
                       /\ stale_run' =
                            IF r.ftrace.case = "stale"
                            THEN (IF stale_run < WatchdogLimit THEN stale_run + 1 ELSE stale_run)
                            ELSE IF r.ftrace.case = "none" THEN stale_run ELSE 0
                       /\ idle_run' =
                            IF r.ftrace.case = "stale"
                            THEN (IF idle_run < WatchdogLimit THEN idle_run + 1 ELSE 1)
                            ELSE IF r.ftrace.case = "fresh" THEN 0 ELSE idle_run
                       /\ tin' = [in |-> a, end |-> end]
                       /\ UNCHANGED << call, logged, valid_gpu_path, endpoint >>
                       /\ cts' = [cts EXCEPT ![g] = clock]
                       /\ cpc' = [cpc EXCEPT ![g] = "wait"]
                       /\ exc' = [exc EXCEPT ![g] =
                                    IF end = "sample" THEN "none" ELSE end]
                       /\ fail_count' = [fail_count EXCEPT ![g] =
                                           IF end = "lost" THEN ForcedCount
                                           ELSE IF end = "other" THEN fc + 1 ELSE 0]
                       /\ IF end = "sample"
                          THEN /\ Emit("monitor", [type |-> "monitor", timestamp |-> clock,
                                                   package |-> r.target])
                               /\ sample' = r.sample
                          ELSE UNCHANGED << sink, sample >>
    /\ UNCHANGED << running, env, nstarts, svars, lvars >>

\* ------------------------------------------------------------------ inputs
\* Latency dumps.  Present times in nanoseconds: 0.1 s, 0.14 s and 1.1 s,
\* in every order, up to MaxRows frames in a dump.
Times == {100000000, 140000000, 1100000000}

Rows(ts) == [i \in 1..Len(ts) |-> Line("row", ts[i])]

FrameSeqs == UNION { [1..n -> Times] : n \in 1..MaxRows }

\* Frames 16, 40 and 16 ms apart.
Example == << 500000000, 516000000, 556000000, 572000000 >>

\* Line 0: 60 Hz, 120 Hz, 0 and text.
Heads == { Line("num", DefaultPeriod), Line("num", 8333333),
           Line("num", 0), Line("text", 0) }

Dumps ==
    { [o |-> "ok", lines |-> << Line("num", DefaultPeriod) >> \o Rows(ts)] : ts \in FrameSeqs }
    \cup { [o |-> "ok", lines |-> << h >> \o Rows(Example)] : h \in Heads }
    \cup { [o |-> "ok", lines |-> << >>],
           [o |-> "ok", lines |-> << Line("num", DefaultPeriod) >>],
           [o |-> "ok", lines |-> << Line("num", DefaultPeriod),
                                     Line("pending", 0), Line("row", 0) >>],
           [o |-> "ok", lines |-> << Line("num", DefaultPeriod),
                                     Line("row", 100000000), Line("bad", 0) >>],
           [o |-> "ok", lines |-> << Line("num", DefaultPeriod), Line("text", 0),
                                     Line("row", 140000000), Line("pending", 0) >>],
           [o |-> "err", lines |-> << >>],
           [o |-> "lost", lines |-> << >>] }

\* The answers of a device whose transport holds and of which one sampler
\* at most fails in a tick: Quiet's answers, or Quiet's but for one.
SampleAnswers ==
    { [Quiet EXCEPT !.disc = d] : d \in DiscCases \ {[o |-> "lost", pkg |-> None]} }
    \cup { [Quiet EXCEPT !.cpu = c] : c \in CpuCases \ {"toplost"} }
    \cup { [Quiet EXCEPT !.mem = "err"], [Quiet EXCEPT !.gpu = "err"],
           [Quiet EXCEPT !.net = "fail"] }
    \cup { [Quiet EXCEPT !.bat = c] : c \in {"part", "err"} }

\* Frame timing in SpecSample: the list of layers answers or fails; the
\* latency command gives GoodDump or an error.
SampleScans == { DefaultScan, [DefaultScan EXCEPT !.list = "err"] }

SampleDumps == { GoodDump, [o |-> "err", lines |-> << >>] }

\* Lines for the filter: of the threadtime layout with a PID of package
\* a, of package ab, of another process or no decimal PID, a level, and a
\* rest that may name a package or hold a crash keyword; and lines of
\* fewer than 5 parts.
Words(ws) == [i \in 1..Len(ws) |-> << ws[i] >>]

FilterLines ==
    { ThreadTime(pid, lvl, rest) :
        pid \in { << "22" >>, << "99" >>, << "u0" >> },
        lvl \in { << "E" >>, << "W" >> },
        rest \in { Words(<< "x" >>), << << "x" >>, PkgB >>,
                   Words(<< "FATAL", "EXCEPTION" >>),
                   Words(<< "ANR", "in" >>) \o << PkgB >>,
                   Words(<< "AndroidRuntime", "x" >>),
                   Words(<< "FATAL", "x", "EXCEPTION", "in" >>) } }
    \cup { Words(<< "FATAL", "EXCEPTION" >>),
           Words(<< "FATAL", "EXCEPTION", "99" >>),
           Words(<< "ANR", "in" >>) \o << PkgB >>,
           Words(<< "x", "x", "22", "E" >>),
           Words(<< "x", "x", "99", "x", "E" >>) \o << PkgB >>,
           Blank }

\* The answers of a device in the specification of the log filter: all
\* well, no process found, or no foreground package found.
PidAnswers ==
    { Quiet, [Quiet EXCEPT !.cpu = "nopid"],
      [Quiet EXCEPT !.disc = [o |-> "err", pkg |-> None]] }

\* Byte counters, and what the three sources answer.
Counters == { << 0, 0 >>, << 1024, 52736 >>, << 52736, 1024 >>, << 3000000, 3000256 >> }

NetInputs ==
    { [uid |-> TRUE, uid_stat |-> a, qtaguid |-> b, dev |-> d] :
        a \in { None, << 1024, 52736 >> },
        b \in { None, << 52736, 1024 >> },
        d \in { None } \cup Counters }
    \cup { [uid |-> FALSE, uid_stat |-> None, qtaguid |-> None, dev |-> d] :
             d \in { None } \cup Counters }

\* What `cat` of the four GPU paths gives.
GpuInputs ==
    { << a, b, c, d >> :
        a \in { Answer(<< >>), Answer(<< Num(71894), Num(1209006) >>),
                Answer(<< Num(7), Num(3) >>), Answer(<< Num(42) >>) },
        b \in { Answer(<< >>), Answer(<< Num(42) >>), Answer(<< Word >>),
                Failure("err"), Failure("lost") },
        c \in { Answer(<< >>), Answer(<< Num(17) >>) },
        d \in { Answer(<< >>), Answer(<< Num(0) >>), Answer(<< Sup >>) } }

\* Contents and paths for the GPU parser on its own.
GpuContents ==
    { << >>, << Num(71894), Num(1209006) >>, << Num(0), Num(0) >>,
      << Num(7), Num(3) >>, << Num(5), Num(8) >>, << Num(1), Num(16) >>,
      << Num(3), Num(16) >>, << Num(5), Num(-1) >>, << Num(-1), Num(3) >>,
      << Num(42) >>, << Num(0) >>, << Num(-3) >>, << Word >>, << Sup >>,
      << Num(1), Word >>, << Sup, Num(3) >>, << Num(1), Num(2), Num(3) >> }

GpuParseInputs ==
    { [output |-> c, path |-> gpu_paths[i]] :
        c \in GpuContents, i \in 1..Len(gpu_paths) }

\* Lines of `top`, and outputs of up to MaxTopLines of them.
Filler(n) == [i \in 1..n |-> Word]

TopLines ==
    { Filler(7) \o << St, Fl(105), Fl(21), Word, Word >>,
      << Word, Word, St, Fl(259), Word >>,
      << PidTok, UserTok >> \o Filler(5) \o << PctText, PctText, Word, Word >>,
      << PidTok, UserTok, Word, St, Fl(70) >>,
      << PctText, PctText, PctText, PctText, PctText >>,
      Filler(9),
      << Word, PctText, Word, PctText, Word, PctText, Word, Pct(20) >>,
      << St, Fl(300), Word >>,
      << Word, Word, Word, St, Pct(50), Word >>,
      << Word, St, Word, St, Fl(40), Word >>,
      Filler(8) \o << Fl(85), Word >>,
      << Word, Word, Word, Word, St >> }

RECURSIVE SeqsUpTo(_, _)
SeqsUpTo(S, n) ==
    IF n = 0 THEN { << >> }
    ELSE LET shorter == SeqsUpTo(S, n - 1)
         IN shorter \cup { Append(q, x) : q \in shorter, x \in S }

TopOutputs == SeqsUpTo(TopLines, MaxTopLines)

\* Lines of `dumpsys meminfo`, and what the command gives: outputs of up to
\* MaxMemLines of them, an error, TransportLost.
MemLines ==
    { << Lbl("TOTAL"), Num(45000), Num(30000) >>,
      << Lbl("TOTAL"), Num(0) >>,
      << Lbl("TOTAL"), Num(30) >>,
      << Lbl("TOTAL"), Lbl("PSS:"), Num(45000) >>,
      << Lbl("TOTAL"), Word, Num(7) >>,
      << Lbl("TOTAL") >>,
      << Lbl("Java"), Lbl("Heap:"), Num(7584), Num(30540) >>,
      << Lbl("Native"), Lbl("Heap:"), Num(-2048) >>,
      << Lbl("Code:"), Num(12345) >>,
      << Lbl("Code:"), Word >>,
      << Lbl("Stack:"), Num(100) >>,
      << Lbl("Private"), Lbl("Other:"), Num(2000) >>,
      << Lbl("System:") >>,
      << Word, Num(5), Num(6) >> }

MemInputs ==
    { Answer(lines) : lines \in SeqsUpTo(MemLines, MaxMemLines) }
    \cup { Failure("err"), Failure("lost") }

\* Layer scans on their own.  Layers a/0, a/1, ... of package a; for each
\* the answer of its probe: one line; two lines without a row; rows that
\* give 3; a row whose parts[2] is 2^63 - 1 and parts[1] 5; rows that
\* give 5; rows that give 7, the largest from parts[1]; a row that does not
\* parse; an error; TransportLost.
Marks == << "0", "1", "2", "3", "4", "5", "6", "7", "8", "9", "x" >>
LayerNo(k) == << "a", "/", Marks[k] >>

ProbeOuts ==
    { Answer(<< Line("num", DefaultPeriod) >>),
      Answer(<< Line("num", DefaultPeriod), Line("text", 0) >>),
      Answer(<< Line("num", DefaultPeriod), Frame(5, 3) >>),
      Answer(<< Line("num", DefaultPeriod), Pending(5) >>),
      Answer(<< Frame(1, 3), Frame(2, 5) >>),
      Answer(<< Line("num", DefaultPeriod), Frame(9, 4), Pending(7) >>),
      Answer(<< Line("num", DefaultPeriod), Frame(1, 1), Line("bad", 0) >>),
      Failure("err"), Failure("lost") }

\* Up to MaxLayers layers with every combination of answers, and
\* ProbeLimit + 1 layers of which the first ProbeLimit answer alike.
ScanOf(n, probes) ==
    [list |-> "ok", layers |-> [i \in 1..n |-> LayerNo(i)], probes |-> probes]

ScanInputs ==
    { ScanOf(n, probes) : n \in 1..MaxLayers, probes \in [1..MaxLayers -> ProbeOuts] }
    \cup { ScanOf(ProbeLimit + 1,
                  [i \in 1..(ProbeLimit + 1) |-> IF i <= ProbeLimit THEN o ELSE p]) :
             o \in ProbeOuts, p \in ProbeOuts }

\* ------------------------------------------------------- websocket_endpoint
\* Before the websocket is accepted: no collector, no queue, no file.
NoTake == [data |-> [type |-> "none"], recording |-> FALSE, wrote |-> "none"]
NoEndpoint ==
    [platform |-> "none", data_queue |-> << >>, record_writer |-> FALSE,
     record |-> << >>, took |-> NoTake]

\* ------------------------------------------------------------------ __init__
\* No line read yet.
NoLog == [n |-> 0, line |-> Blank,
          event |-> [level |-> "", message |-> << >>, is_crash |-> FALSE]]

\* The collector after __init__, nothing delivered, no tick taken.
Constructed ==
    /\ running = FALSE
    /\ target_package = None
    /\ current_pids = {}
    /\ layer_name = None
    /\ last_network_data = None
    /\ connected = TRUE
    /\ clock = 0
    /\ nstarts = 0
    /\ cpc = [g \in Gens |-> "none"]
    /\ fail_count = [g \in Gens |-> 0]
    /\ cts = [g \in Gens |-> 0]
    /\ exc = [g \in Gens |-> "none"]
    /\ spc = [g \in Gens |-> "none"]
    /\ sts = [g \in Gens |-> 0]
    /\ sres = [g \in Gens |-> "none"]
    /\ lpc = [g \in Gens |-> "none"]
    /\ proc = [g \in Gens |-> "none"]
    /\ lexit = [g \in Gens |-> "none"]
    /\ sent = [s \in Streams |-> 0]
    /\ last = [s \in Streams |-> 0]
    /\ sample = NoSample
    /\ last_seen_frame_time = 0
    /\ zero_fps_count = 0
    /\ tin = [in |-> [Quiet EXCEPT !.dump = Answer(<< >>)], end |-> "none"]
    /\ ftrace = NoTrace
    /\ stale_run = 0
    /\ idle_run = 0
    /\ valid_gpu_path = None
    /\ logged = NoLog
    /\ endpoint = NoEndpoint

\* No function of the module is being called on its own.
NoCall == [fn |-> "none", arg |-> << >>, ret |-> << >>, done |-> FALSE]

Init == Constructed /\ call = NoCall

\* ------------------------------------------------------------ specification
CollectStep(g) ==
    \/ CollectHead(g) \/ Probe(g) \/ Discover(g) \/ Pgrep(g) \/ Top(g)
    \/ Mem(g) \/ Fps(g) \/ Gpu(g) \/ Bat(g) \/ Net(g)

ShotStep(g) == ShotHead(g) \/ Capture(g) \/ ShotResume(g)

\* Steps the log loop takes without a word from the device.
LogStep(g) == LogStart(g) \/ LogSpawned(g)

\* The websocket handler, the device, and the three kinds of loop.
Api == (\E p \in Targets : MsgStart(p)) \/ MsgStop
Device == Disconnect \/ Reconnect
Collect == \E g \in Gens : CollectStep(g)
Shot == \E g \in Gens : ShotStep(g)
Log ==
    \/ \E g \in Gens : LogStep(g)
    \/ \E g \in Gens : \E line \in LogLines : LogLine(g, line)
    \/ \E g \in Gens : LogEof(g)
    \/ \E g \in Gens : LogError(g)

Next == Api \/ Device \/ Tick \/ Collect \/ Shot \/ Log

Spec == Init /\ [][Next]_vars

\* The client never restarts a collector it has stopped: a start message
\* starts the loops once and later only changes the target.
ApiOnce == (\E p \in Targets : (running \/ nstarts = 0) /\ MsgStart(p)) \/ MsgStop

\* Parts of the system.  The loops share no variable that one writes and
\* another kind reads, except the session state written by the metrics loop
\* and read by the log filter, so a behaviour of a part is a behaviour of
\* the whole in which the other loops are not scheduled.
\*   SpecCollect: the metrics loops alone, restarts included.
\*   SpecSession: all three loops and the device, one start.
\*   SpecClock:   the screenshot loops with a moving clock, restarts included.
SpecCollect == Init /\ [][Api \/ Device \/ Collect]_vars
SpecSession == Init /\ [][ApiOnce \/ Device \/ Collect \/ Shot \/ Log]_vars
SpecClock == Init /\ [][Api \/ Tick \/ Shot]_vars

\*   SpecSample:  the metrics loop, one iteration a step, started once and
\*                retargeted at will, with the content of the samples.
\*   SpecFrames:  the same on one package, the device failing in frame
\*                timing only, with every latency dump of Dumps.
\* The client starts the collector once, with or without a target, and
\* leaves it running; it may send further start messages, which only call
\* set_target.
StartAny == \E p \in Targets : nstarts = 0 /\ MsgStart(p)
StartOnly == \E p \in Packages : nstarts = 0 /\ MsgStart(p)
Retarget == \E p \in Packages : running /\ MsgStart(p)

SampleTick == \E g \in Gens : CollectTick(g, SampleAnswers, SampleScans, SampleDumps)
FrameTick == \E g \in Gens : CollectTick(g, {Quiet}, ScanCases, Dumps)

SpecSample == Init /\ [][StartAny \/ Retarget \/ Tick \/ SampleTick]_vars
SpecFrames == Init /\ [][StartOnly \/ FrameTick]_vars

\*   SpecLog:     the log loop with the filter, the metrics loop setting the
\*                target and the PIDs, and every line of FilterLines.
PidTick == \E g \in Gens : CollectTick(g, PidAnswers, {DefaultScan}, {GoodDump})
LogOpen == \E g \in Gens : LogStep(g)
LogFilter == \E g \in Gens : \E line \in FilterLines : LogSeen(g, line)
SpecLog == Init /\ [][StartAny \/ PidTick \/ LogOpen \/ LogFilter]_vars

\*   SpecLogEnd:  the log loop from its start to its end, reading a blank
\*                line or an error line, with start and stop messages.
EndLines == { Blank, ThreadTime(<< "22" >>, << "E" >>, Words(<< "x" >>)) }
LogShort == \E g \in Gens : \E line \in EndLines : LogSeen(g, line)
LogEnd == \E g \in Gens : LogEof(g) \/ LogError(g)
SpecLogEnd == Init /\ [][Api \/ LogOpen \/ LogShort \/ LogEnd]_vars

\*   SpecNet:     _get_network_usage called tick after tick, for every
\*                answer of NetInputs, while the clock advances.
NetCall ==
    \E in \in NetInputs :
        LET r == get_network_usage(in, last_network_data, clock)
        IN /\ call' = [fn |-> "get_network_usage",
                       arg |-> [in |-> in, last |-> last_network_data, now |-> clock,
                                package |-> target_package],
                       ret |-> r.info, done |-> TRUE]
           /\ last_network_data' = r.last
           /\ UNCHANGED << running, target_package, current_pids, layer_name,
                           env, nstarts, cvars, svars, lvars, sink,
                           sample, last_seen_frame_time, zero_fps_count, tin,
                           ftrace, stale_run, idle_run, logged, valid_gpu_path,
                           endpoint >>
SpecNet == Init /\ [][Tick \/ NetCall]_vars

\*   SpecNetTarget: the same with start messages that set the target.
SetTarget == \E p \in Packages : MsgStart(p)
SpecNetTarget == Init /\ [][SetTarget \/ Tick \/ NetCall]_vars

\*   SpecGpu:     _get_gpu_usage called tick after tick, for every answer
\*                of GpuInputs.
GpuCall ==
    \E dev \in GpuInputs :
        LET r == get_gpu_usage(valid_gpu_path, dev)
        IN /\ call' = [fn |-> "get_gpu_usage",
                       arg |-> [cached |-> valid_gpu_path, dev |-> dev],
                       ret |-> [val |-> r.val, raised |-> r.raised], done |-> TRUE]
           /\ valid_gpu_path' = r.cached
           /\ UNCHANGED << running, session, env, nstarts, cvars, svars, lvars,
                           sink, sample, last_seen_frame_time, zero_fps_count,
                           tin, ftrace, stale_run, idle_run, logged, endpoint >>
SpecGpu == Init /\ [][GpuCall]_vars

\* A function of the module called on its own returns: ret is its result.
Return(fn, result) ==
    /\ call.fn = fn /\ ~call.done
    /\ call' = [call EXCEPT !.ret = result, !.done = TRUE]
    /\ UNCHANGED << running, session, env, nstarts, cvars, svars, lvars, sink,
                    sample, last_seen_frame_time, zero_fps_count, tin, ftrace,
                    stale_run, idle_run, logged, valid_gpu_path, endpoint >>

Calling(fn, args) ==
    Constructed /\ call \in { [fn |-> fn, arg |-> a, ret |-> << >>, done |-> FALSE] : a \in args }

\*   SpecScan:    _find_active_layer on its own, for package a and every
\*                scan of ScanInputs.
ScanReturns == Return("find_active_layer", find_active_layer(PkgA, call.arg))
SpecScan == Calling("find_active_layer", ScanInputs) /\ [][ScanReturns]_vars

\*   SpecGpuParse: _parse_gpu_from_content on its own, for every content
\*                and path of GpuParseInputs.
GpuParseReturns ==
    Return("parse_gpu_from_content",
           parse_gpu_from_content(call.arg.output, call.arg.path))
SpecGpuParse ==
    Calling("parse_gpu_from_content", GpuParseInputs) /\ [][GpuParseReturns]_vars

\*   SpecCpuParse: _parse_cpu_from_top on its own, for every output of
\*                TopOutputs.
CpuParseReturns == Return("parse_cpu_from_top", parse_cpu_from_top(call.arg))
SpecCpuParse == Calling("parse_cpu_from_top", TopOutputs) /\ [][CpuParseReturns]_vars

\*   SpecMem:     _get_memory_usage on its own, for every answer of
\*                MemInputs.
MemReturns == Return("get_memory_usage", get_memory_usage(call.arg))
SpecMem == Calling("get_memory_usage", MemInputs) /\ [][MemReturns]_vars

\*   SpecRestart: the screenshot loops and the log loops with their
\*                children, with start and stop messages at any time.
SpecRestart == Init /\ [][Api \/ Shot \/ LogOpen \/ LogEnd]_vars

\*   SpecLayer:   the metrics loop on package a, the list of layers
\*                holding one line in the RequestedLayerState wrapper: its
\*                clean name holds the package (PlainScan) or only a later
\*                field of the line does (KeyedScan).
PlainScan ==
    [list |-> "ok", probes |-> << ProbeT2 >>,
     layers |-> << << Wrapper, "a", "/", "M", Hash, Space, "p", Brace >> >>]
KeyedScan ==
    [list |-> "ok", probes |-> << ProbeT2 >>,
     layers |-> << << Wrapper, "M", Hash, Space, "a", Brace >> >>]
LayerScans == { PlainScan, KeyedScan }
LayerDumps ==
    { GoodDump,
      [o |-> "ok", lines |-> << Line("num", DefaultPeriod), Line("row", 1100000000) >>],
      [o |-> "ok", lines |-> << Line("num", DefaultPeriod) >>],
      [o |-> "err", lines |-> << >>] }
StartA == nstarts = 0 /\ MsgStart(PkgA)
LayerTick == \E g \in Gens : CollectTick(g, {Quiet}, LayerScans, LayerDumps)
SpecLayer == Init /\ [][StartA \/ LayerTick]_vars

\*   SpecList:    the candidates of _find_active_layer for package a, in
\*                the order of probing, for lists of up to MaxLayers lines
\*                of ListLines and for a list of ProbeLimit + 1 candidates.
ListLines ==
    { << "a" >>, << "a", "/", "M" >>, << "SurfaceView", "a" >>, << "M" >>,
      << "Splash Screen", Space, "a" >>, << "Background for", Space, "a" >>,
      << "a", "/", "Background for" >>,
      << Wrapper, "Splash Screen", Space, "a", Hash, Space, "p", Brace >>,
      << Wrapper, "a", Space, "p", Brace >> }
ListInputs ==
    SeqsUpTo(ListLines, MaxLayers)
    \cup { [i \in 1..(ProbeLimit + 1) |-> IF i = ProbeLimit + 1 THEN << "a", "/", "M" >>
                                                              ELSE << "a" >>] }
ListReturns == Return("valid_candidates", valid_candidates(PkgA, call.arg))
SpecList == Calling("valid_candidates", ListInputs) /\ [][ListReturns]_vars

\*   SpecValid:   valid_lines of _get_fps_and_jank on its own, for dumps
\*                whose rows differ in their second and third columns.
FrameLines ==
    { Frame(c2, c3) : c2 \in {0, 100, Int64Max}, c3 \in {0, 200} }
    \cup { Pending(c2) : c2 \in {0, 100} }
    \cup { Line("text", 0) }
ValidInputs ==
    { << Line("num", DefaultPeriod) >> \o rows : rows \in SeqsUpTo(FrameLines, MaxFrames) }
ValidReturns == Return("valid_lines", valid_lines(call.arg))
SpecValid == Calling("valid_lines", ValidInputs) /\ [][ValidReturns]_vars

\*   SpecRecord:  the websocket handler of main.py with its queue and its
\*                CSV file, for a collector of either platform; the loops
\*                of the collector are what puts events into the queue.
Platforms == {"android", "ios"}
Open == endpoint.platform \in Platforms

\* `await websocket.accept()` and the choice of the collector's class.
Accept ==
    /\ endpoint.platform = "none"
    /\ \E platform \in Platforms : endpoint' = [endpoint EXCEPT !.platform = platform]
    /\ UNCHANGED << running, session, env, nstarts, cvars, svars, lvars, sink, engine >>

\* The dict _collect_once returns, taken at time t for package p.
AndroidSample(t, p) ==
    [type |-> "monitor", timestamp |-> t, package |-> p, cpu |-> 12, memory |-> 345,
     memory_detail |-> None, fps |-> 60, jank |-> 1, stutter |-> 2, gpu |-> 30,
     battery |-> [level |-> 80, voltage |-> 4200, temp |-> 31, current |-> 250],
     network |-> [rx |-> 5, tx |-> 7]]

\* The dict _report_loop of IOSCollector builds.
IosSample(t, p) ==
    [timestamp |-> t, package |-> p, cpu |-> 11, memory |-> 340, fps |-> 59,
     gpu |-> 29, jank |-> 0, stutter |-> 0, battery |-> [level |-> 79, temp |-> 0],
     network |-> [rx |-> 0, tx |-> 0]]

\* The event of the screenshot loops (both platforms).
ScreenshotEvent(t) == [type |-> "screenshot", timestamp |-> t, url |-> t]

\* What the loops of the collector can hand to the callback now.
EventsOf(platform) ==
    IF platform = "android"
    THEN { AndroidSample(clock, target_package), ScreenshotEvent(clock),
           LogEvent(ThreadTime(<< "22" >>, << "E" >>, Words(<< "x" >>))) }
    ELSE { IosSample(clock, target_package), ScreenshotEvent(clock) }

\* queue_callback(data): data_queue.put_nowait(data), by a loop of a
\* collector that has been started.
Put ==
    /\ Open /\ nstarts > 0
    /\ Len(endpoint.data_queue) < MaxQueue
    /\ \E data \in EventsOf(endpoint.platform) :
          endpoint' = [endpoint EXCEPT !.data_queue = Append(@, data)]
    /\ UNCHANGED << running, session, env, nstarts, cvars, svars, lvars, sink, engine >>

\* dict.get(key): None for a missing key.
Get(data, key) == IF key \in DOMAIN data THEN data[key] ELSE None

\* data.get(outer, {}).get(key)
Get2(data, outer, key) == IF outer \in DOMAIN data THEN Get(data[outer], key) ELSE None

\* The row of a sample.
Row(data) ==
    << Get(data, "timestamp"), Get(data, "package"), Get(data, "cpu"),
       Get(data, "memory"), Get(data, "fps"), Get(data, "jank"),
       Get(data, "stutter"), Get(data, "gpu"),
       Get2(data, "battery", "level"), Get2(data, "battery", "voltage"),
       Get2(data, "battery", "temp"), Get2(data, "battery", "current"),
       Get2(data, "network", "rx"), Get2(data, "network", "tx") >>

\* The header row.
Header ==
    << "timestamp", "package", "cpu(%)", "memory(MB)", "fps", "jank", "stutter(%)",
       "gpu(%)", "battery.level", "battery.voltage(mV)", "battery.temp(C)",
       "battery.current(mA)", "network.rx(KB/s)", "network.tx(KB/s)" >>

\* `record_writer and isinstance(data, dict) and data.get("type") == "monitor"`
RowDue(data) == endpoint.record_writer /\ "type" \in DOMAIN data /\ data.type = "monitor"

\* The finally clause: collector.stop() and the file closed.
Closed == [endpoint EXCEPT !.platform = "closed", !.record_writer = FALSE]

\* queue_task is done: the event is sent to the client and, when a row is
\* due, written ("row") unless writerow or flush raises ("error", which is
\* logged).  send_json raising ends the handler ("unsent").  took keeps
\* the event, whether there was a writer, and what became of the row.
Take ==
    /\ Open /\ endpoint.data_queue # << >>
    /\ LET data == Head(endpoint.data_queue)
       IN \E wrote \in (IF RowDue(data) THEN {"row", "error"} ELSE {"none"}) \cup {"unsent"} :
            /\ wrote = "row" => Len(endpoint.record) < MaxRecord
            /\ endpoint' =
                 [(IF wrote = "unsent" THEN Closed ELSE endpoint) EXCEPT
                    !.data_queue = Tail(@),
                    !.record = IF wrote = "row" THEN Append(@, Row(data)) ELSE @,
                    !.took = [data |-> data, recording |-> endpoint.record_writer,
                               wrote |-> wrote]]
            /\ running' = IF wrote = "unsent" THEN FALSE ELSE running
    /\ UNCHANGED << session, env, nstarts, cvars, svars, lvars, sink, engine >>

\* IOSCollector.start(): nothing without a target, else running and the
\* report and screenshot loops.
StartIos(p) ==
    /\ target_package' = p
    /\ IF running \/ p = None
       THEN UNCHANGED << running, nstarts >>
       ELSE /\ nstarts < MaxStarts
            /\ nstarts' = nstarts + 1
            /\ running' = TRUE
    /\ UNCHANGED << current_pids, layer_name, last_network_data, env,
                    cvars, svars, lvars, sink >>

\* Message {"type": "start", "target": p}: set_target and start as above,
\* then a new CSV file with its header.  open() may raise ("noopen": the
\* writer stays what it was) and so may the writing of the header
\* ("noheader": the new writer is in place); both are only logged.
RecordStart ==
    /\ Open
    /\ \E p \in Targets :
          IF endpoint.platform = "android" THEN StartCollector(p) ELSE StartIos(p)
    /\ \E o \in {"ok", "noopen", "noheader"} :
          endpoint' = [endpoint EXCEPT
                         !.record_writer = IF o = "noopen" THEN @ ELSE TRUE,
                         !.record = IF o = "ok" THEN << Header >>
                                    ELSE IF o = "noheader" THEN << >> ELSE @]
    /\ UNCHANGED engine

\* Message {"type": "stop"}: collector.stop(), the file closed, no writer.
RecordStop ==
    /\ Open
    /\ running' = FALSE
    /\ endpoint' = [endpoint EXCEPT !.record_writer = FALSE]
    /\ UNCHANGED << session, env, nstarts, cvars, svars, lvars, sink, engine >>

\* receive_json raises WebSocketDisconnect: the finally clause.
Close ==
    /\ Open
    /\ running' = FALSE
    /\ endpoint' = Closed
    /\ UNCHANGED << session, env, nstarts, cvars, svars, lvars, sink, engine >>

SpecRecord ==
    Init /\ [][Accept \/ RecordStart \/ RecordStop \/ Put \/ Take \/ Close]_vars

\* A session with one start and a device that stays connected, under the
\* scheduling asyncio gives: every ready coroutine is run, timers fire, the
\* executor thread finishes and shell commands return.  Nothing makes the
\* device write a log line or close the stream, and nothing makes the
\* client send a message.
FairSession ==
    /\ Init /\ [][ApiOnce \/ Collect \/ Shot \/ Log]_vars
    /\ \A g \in Gens : WF_vars(CollectStep(g))
    /\ \A g \in Gens : WF_vars(ShotStep(g))
    /\ \A g \in Gens : WF_vars(LogStep(g))

\* ===================================================================== claims
\* A step of the metrics loop of generation g.
Moved(g) == cpc'[g] # cpc[g]

\* pc values of _collect_loop between two iterations.
Between == {"new", "wait", "sleep2"}

\* ------------------------------------------------------------------------ C1
\* C1 as stated: a reconnection attempt is made only after 4 consecutive
\* failed ticks.  While the counter is at most FailLimit it is the number of
\* consecutive failed ticks, so a loop with fewer than 3 of them behind it
\* must not be due for a reconnect after one more tick.
C1_OnlyAfterFourFailures ==
    [][\A g \in Gens : fail_count[g] < FailLimit => fail_count'[g] <= FailLimit]_vars

\* C1 amended: a loop is at the probe only with a counter above 3, an
\* iteration starts with the probe exactly when the counter is above 3, and
\* the counter gets above 3 only by a tick that failed with TransportLost
\* (straight to 10, whatever the count was) or by the 4th consecutive tick
\* that failed otherwise.
C1_ReconnectWhenCounterAboveLimit ==
    /\ [](\A g \in Gens : cpc[g] = "probe" => fail_count[g] > 3)
    /\ [][\A g \in Gens :
            /\ (cpc[g] \in Between /\ Moved(g) /\ running)
                  => (cpc'[g] = "probe" <=> fail_count[g] > 3)
            /\ (fail_count[g] <= 3 /\ fail_count'[g] > 3)
                  => \/ exc'[g] = "lost" /\ fail_count'[g] = 10
                     \/ exc'[g] = "other" /\ fail_count[g] = 3 /\ fail_count'[g] = 4
         ]_vars

\* A loop about to probe after four consecutive failures, none TransportLost.
C1_Witness == \E g \in Gens : cpc[g] = "probe" /\ fail_count[g] = 4

\* ------------------------------------------------------------------------ C2
\* C2: the step that ends a probe either succeeds (counter 0 and
\* _collect_once begun in the same iteration, at its first command) or fails
\* (2 s sleep, counter unchanged, nothing delivered); a probe cannot succeed
\* while the device is disconnected; and after the 2 s sleep the loop probes
\* again if running is still true and ends if not.
C2_ProbeOutcome ==
    [][\A g \in Gens :
         /\ (cpc[g] = "probe" /\ Moved(g))
               => \/ /\ connected
                     /\ fail_count'[g] = 0
                     /\ cpc'[g] \in {"discover", "pgrep"}
                     /\ sent' = sent
                  \/ /\ cpc'[g] = "sleep2"
                     /\ fail_count'[g] = fail_count[g]
                     /\ sent' = sent
         /\ (cpc[g] = "sleep2" /\ Moved(g))
               => IF running THEN cpc'[g] = "probe" /\ fail_count'[g] = fail_count[g]
                             ELSE cpc'[g] = "done"
      ]_vars

\* A loop that sleeps 2 s after a failed probe while the collector runs.
C2_Witness == \E g \in Gens : cpc[g] = "sleep2" /\ running /\ ~connected

\* ------------------------------------------------------------------------ C4
\* C4 as stated: a TransportLost raised by any single shell command of a
\* tick aborts the tick.  With the device disconnected every command raises
\* it, so every command that returns then must end the tick without a
\* sample and with the counter forced to 10.
C4_EveryStepReRaises ==
    [][\A g \in Gens :
         (~connected /\ cpc[g] \in (ShellPcs \ {"probe"}) /\ Moved(g))
            => /\ cpc'[g] = "wait"
               /\ fail_count'[g] = 10
               /\ sent' = sent
      ]_vars

\* ------------------------------------------------------------------------ C7
\* What is left in the session belongs to the current target.
NoResidue ==
    /\ current_pids \subseteq PgrepOut(target_package)
    /\ layer_name # None => layer_name = LayerOf(target_package)
    /\ last_network_data # None => last_network_data[1] = RxOf(target_package)

\* C7 as stated: when the loops of a restart (a start() after a stop()) have
\* been created and the metrics loop has not begun its first tick, no
\* per-target state of an earlier target is left.
C7_RestartClearsSession ==
    \A g \in Gens : (g > 1 /\ cpc[g] = "new") => NoResidue

C5_NothingNewAfterStop ==
    [][~running =>
         /\ ~Delivered("monitor")
         /\ ~Delivered("log")
         /\ Delivered("screenshot") => \E g \in Gens : spc[g] = "resume"
      ]_vars

\* ------------------------------------------------------------------------ C6
AllLoopsEnded ==
    \A g \in Gens :
        /\ cpc[g] \in {"none", "done"}
        /\ spc[g] \in {"none", "done"}
        /\ lpc[g] \in {"none", "done"}

\* C6 as stated: after stop() with no later start() each of the three loops
\* eventually terminates, whatever the device does.
C6_LoopsEndAfterStop == (nstarts > 0 /\ ~running) ~> AllLoopsEnded

\* ------------------------------------------------------------------------ C8
\* C8 as stated: while a shell command of the metrics tick has not returned,
\* a screenshot loop whose capture is finished can resume and a log loop
\* that has a task to start or a line to read can take that step.
C8_ShellBlocksOnlyItsLoop ==
    InShell =>
        \A h \in Gens :
            /\ spc[h] = "resume" => ENABLED ShotResume(h)
            /\ lpc[h] = "new" => ENABLED LogStart(h)
            /\ (lpc[h] = "read" /\ connected) => ENABLED LogEof(h)

\* ------------------------------------------------------------------------ C9
\* C9 as stated: on every stream each event delivered has a timestamp not
\* below that of the event delivered before it.
C9_TimestampsInOrder == [][\A s \in Streams : last'[s] >= last[s]]_vars

\* ----------------------------------------------------------------------- C10
\* C10 as stated: a loop that has caught an exception raised in one of its
\* iterations has not ended by it.
C10_EveryLoopGoesOn ==
    [][\A g \in Gens :
         /\ (exc[g] = "none" /\ exc'[g] # "none") => cpc'[g] # "done"
         /\ (spc[g] = "resume" /\ sres[g] = "lost") => spc'[g] # "done"
         /\ (lexit[g] # "error" /\ lexit'[g] = "error") => lpc'[g] # "done"
      ]_vars

\* C10 amended: an exception in a metrics tick or in a screenshot iteration
\* is caught, the loop sleeps and goes on with its next iteration while
\* running holds; an exception in an iteration of the log loop is caught
\* outside its while loop and ends the log loop, its child terminated and
\* awaited; in each case the step leaves the loops of the other two kinds
\* as they were.
C10_LoopsGoOnButLogEnds ==
    [][\A g \in Gens :
         /\ (exc[g] = "none" /\ exc'[g] # "none")
               => cpc'[g] = "wait" /\ UNCHANGED << svars, lvars >>
         /\ (cpc[g] = "wait" /\ exc[g] # "none" /\ Moved(g) /\ running)
               => cpc'[g] \in {"probe", "discover", "pgrep"}
         /\ (spc[g] = "resume" /\ sres[g] = "lost" /\ spc'[g] # spc[g])
               => spc'[g] = "wait" /\ UNCHANGED << cvars, lvars >>
         /\ (spc[g] = "wait" /\ sres[g] = "lost" /\ spc'[g] # spc[g] /\ running)
               => spc'[g] = "capture"
         /\ (lexit[g] # "error" /\ lexit'[g] = "error")
               => /\ lpc'[g] = "done" /\ proc'[g] = "exited"
                  /\ UNCHANGED << cvars, svars >>
      ]_vars

\* The log loop has ended on an exception while the metrics loop and the
\* screenshot loop, each after an exception of its own, sleep before their
\* next iteration.
C10_Witness ==
    \E g \in Gens :
        /\ running
        /\ lexit[g] = "error" /\ lpc[g] = "done"
        /\ cpc[g] = "wait" /\ exc[g] = "lost"
        /\ spc[g] = "wait" /\ sres[g] = "lost"

\* ----------------------------------------------------------------------- C11
\* A tick of the metrics loop that delivered a monitor sample of a target.
Sampled == Delivered("monitor") /\ sample'.package # None

\* In that tick the frame timing raised an exception it gave up on.
FpsFailed == ftrace'.case = "error" \/ "list" \in ftrace'.raised

\* What the samplers other than the battery's and the frame timing put in
\* the sample of a tick: each its own value if it did not fail, the neutral
\* value if it did, whatever the others did; and the frame timing gives
\* zeros if it failed and frames of the dump if nothing failed in it.
OwnValues ==
    LET a == tin'.in
        tp == target_package'
    IN /\ sample'.cpu = IF a.cpu = "ok" THEN Real(tp) ELSE Neutral
       /\ sample'.memory = IF a.mem = "ok" THEN Real(tp) ELSE Neutral
       /\ sample'.gpu = IF a.gpu = "ok" THEN Real(None) ELSE Neutral
       /\ sample'.network =
            IF a.net # "ok" THEN Neutral
            ELSE IF last_network_data # None /\ clock > last_network_data[2]
                 THEN Real(<< RxOf(tp), last_network_data[1] >>)
                 ELSE Neutral
       /\ FpsFailed => /\ sample'.fps.fps = 0 /\ sample'.fps.jank = 0
                       /\ sample'.fps.stutter = 0
       /\ (ftrace'.case = "fresh" /\ ftrace'.raised = {}) => sample'.fps.fps > 0

C12_SampleIsOfTarget ==
    [][(Delivered("monitor") /\ target_package # None) =>
          LET p == target_package
          IN /\ sample'.package = p
             /\ sample'.cpu.v = "real" => sample'.cpu.of = p
             /\ sample'.memory.v = "real" => sample'.memory.of = p
             /\ sample'.fps.layer # None => InStr(p, sample'.fps.layer)
             /\ sample'.network.v = "real"
                   => sample'.network.of = << RxOf(p), RxOf(p) >>
      ]_vars

\* ----------------------------------------------------------------------- C13
\* C13: a tick that starts with no target asks the device for the
\* foreground package.  If the answer is a package, it becomes the target:
\* the sample of this tick carries it, and it stays the target until
\* set_target is called (only a start message or a discovery from no target
\* changes the target).  If there is no answer, the tick delivers a sample
\* with package null and every metric at its neutral value and leaves the
\* target empty, so that the next tick asks again.
C13_Discovery ==
    [][/\ (Delivered("monitor") /\ target_package = None) =>
            LET d == tin'.in.disc
            IN IF d.o = "ok" /\ d.pkg # None
               THEN target_package' = d.pkg /\ sample'.package = d.pkg
               ELSE target_package' = None /\ sample' = NoSample
       /\ (target_package # None /\ target_package' # target_package)
             => (tin' = tin /\ ~Delivered("monitor") /\ target_package' # None)
      ]_vars

\* An even number of samples was delivered, the last of them by a tick that
\* started with no target and discovered ab, with the CPU of ab in it.
C13_Witness ==
    /\ running /\ sent["monitor"] = 0
    /\ sample.package = PkgB /\ target_package = PkgB
    /\ tin.in.disc = [o |-> "ok", pkg |-> PkgB]
    /\ sample.cpu = Real(PkgB)

\* ----------------------------------------------------------------------- C14
\* A tick of the metrics loop whose frame timing got as far as the last
\* valid present time and found it equal to the value persisted by the most
\* recent tick that found a new one.
StaleTick ==
    /\ Delivered("monitor")
    /\ ftrace'.lastt # 0 /\ ftrace'.lastt = last_seen_frame_time

\* The frame-timing numbers of the sample are all zero.
ZeroFps(smp) == smp.fps.fps = 0 /\ smp.fps.jank = 0 /\ smp.fps.stutter = 0

\* C14: a stale tick reports fps 0, jank 0 and stutter 0, leaves the
\* persisted last-seen present time as it was, and adds exactly one to the
\* zero-FPS streak (which the watchdog then takes back to 0 when it has
\* reached 5).
C14_StaleTick ==
    [][StaleTick =>
          /\ ZeroFps(sample')
          /\ last_seen_frame_time' = last_seen_frame_time
          /\ \/ zero_fps_count' = zero_fps_count + 1
             \/ zero_fps_count + 1 = WatchdogLimit /\ zero_fps_count' = 0
      ]_vars

\* A tick found the last frame of the previous tick again: the sample has
\* zeros, the streak is 1 and the last-seen present time is still there.
C14_Witness ==
    /\ ftrace.case = "stale" /\ ftrace.lastt = last_seen_frame_time
    /\ zero_fps_count = 1 /\ ZeroFps(sample)
    /\ last_seen_frame_time = 1100000000

\* ----------------------------------------------------------------------- C15
\* The watchdog cleared the cached layer in this stale tick.
WatchdogCleared == StaleTick /\ layer_name' = None

\* C15 as stated: the zero-FPS streak is never 5 or more after a tick; the
\* stale tick in which it reaches 5 clears the cached layer and resets it
\* to 0; and the watchdog does not clear the layer on the first to fourth
\* stale tick of a run of stale ticks.
C15_WatchdogOnFifthOfRun ==
    /\ [](zero_fps_count < WatchdogLimit)
    /\ [][/\ (StaleTick /\ zero_fps_count + 1 = WatchdogLimit)
               => layer_name' = None /\ zero_fps_count' = 0
          /\ (StaleTick /\ stale_run' \in 1..(WatchdogLimit - 1))
               => layer_name' # None
         ]_vars

\* C15 as the code has it: the same, the stale ticks being counted from the
\* latest tick that found a new frame or the latest clearing: the watchdog
\* does not clear the layer on a stale tick that takes the streak to 1..4,
\* but a tick that returns early (no layer, short dump, no valid rows,
\* error) between stale ticks does not start the count again.
C15_WatchdogOnFifthOfStreak ==
    /\ [](zero_fps_count < WatchdogLimit)
    /\ [][/\ (StaleTick /\ zero_fps_count + 1 = WatchdogLimit)
               => layer_name' = None /\ zero_fps_count' = 0
          /\ (StaleTick /\ idle_run' \in 1..(WatchdogLimit - 1))
               => /\ layer_name' # None
                  /\ zero_fps_count' = idle_run'
         ]_vars

\* The fifth stale tick in a row has cleared the layer and reset the streak.
C15_Witness ==
    /\ ftrace.case = "stale" /\ stale_run = WatchdogLimit
    /\ layer_name = None /\ zero_fps_count = 0

\* ----------------------------------------------------------------------- C16
\* A tick whose frame timing ran and was not stale: it had no layer, a dump
\* of fewer than 2 lines, no valid row, an exception, or a new last frame.
NonStaleTick ==
    /\ Delivered("monitor")
    /\ ftrace'.case \in {"nolayer", "short", "novalid", "error", "fresh"}

\* C16: every frame-timing tick that is not stale resets the zero-FPS
\* streak to 0, so that the watchdog clears the cached layer only in the
\* fifth of 5 stale ticks with no tick of another kind between them.
C16_NonStaleResets ==
    [][/\ NonStaleTick => zero_fps_count' = 0
       /\ WatchdogCleared => stale_run' = WatchdogLimit
      ]_vars

\* What the code does instead: only a tick that finds a new last frame
\* resets the streak; a tick that returns before the staleness test leaves
\* it as it was; the watchdog clears the layer in the fifth stale tick
\* since the latest tick with a new frame or the latest clearing.
C16_OnlyNewFrameResets ==
    [][/\ (Delivered("monitor") /\ ftrace'.case = "fresh") => zero_fps_count' = 0
       /\ (Delivered("monitor") /\ ftrace'.case \in {"nolayer", "short", "novalid", "error"})
             => zero_fps_count' = zero_fps_count
       /\ WatchdogCleared => idle_run' = WatchdogLimit
      ]_vars

\* ----------------------------------------------------------------------- C17
\* The last k elements of valid are all less than Threshold before the last.
InWindow(valid, k) ==
    \A i \in (Len(valid) - k + 1)..Len(valid) : valid[Len(valid)] - valid[i] < Threshold

\* The length of the maximal contiguous suffix of valid within the window:
\* the suffix of that length is within it and the element before the
\* suffix, if there is one, is not.
SuffixLength(valid) ==
    CHOOSE k \in 1..Len(valid) :
        /\ InWindow(valid, k)
        /\ k < Len(valid) => ~(valid[Len(valid)] - valid[Len(valid) - k] < Threshold)

\* C17: on a tick that finds a new last frame, the fps reported is the
\* number of elements of the maximal contiguous suffix of the valid present
\* times in which every element t has last - t < 10^9; elements before that
\* suffix are not counted, whether they meet the bound or not.
C17_FpsIsSuffixLength ==
    [][(Delivered("monitor") /\ ftrace'.case = "fresh")
          => sample'.fps.fps = SuffixLength(ftrace'.valid)
      ]_vars

\* A dump whose first present time is within a second of the last and
\* whose second is not: only the last frame is counted.
C17_Witness ==
    /\ ftrace.case = "fresh"
    /\ ftrace.valid = << 140000000, 100000000, 1100000000 >>
    /\ sample.fps.fps = 1

\* ----------------------------------------------------------------------- C18
\* The window of a tick's valid present times (C17) and the differences of
\* its adjacent elements.
WindowOf(valid) == SubSeq(valid, Len(valid) - SuffixLength(valid) + 1, Len(valid))
Deltas(w) == [i \in 1..(Len(w) - 1) |-> w[i + 1] - w[i]]

RECURSIVE SumTo(_, _)
SumTo(f, n) == IF n = 0 THEN 0 ELSE SumTo(f, n - 1) + f[n]

JankCount(w, P) == Cardinality({ i \in DOMAIN Deltas(w) : Deltas(w)[i] > 2 * P })
ExcessTime(w, P) ==
    SumTo([i \in DOMAIN Deltas(w) |->
             IF Deltas(w)[i] > P THEN Deltas(w)[i] - P ELSE 0], Len(w) - 1)
TotalDuration(w) == SumTo(Deltas(w), Len(w) - 1)

\* s tenths of a percent is excess / total * 100 rounded to one decimal,
\* for 0 <= excess < total: 1000 * excess - s * total is at most half of
\* total in absolute value, and s is even when it is exactly half.  The
\* difference is computed in two parts, millions and units, so that no
\* intermediate value leaves 32 bits.
IsRounded(s, excess, total) ==
    LET M == 1000000
        hi == 1000 * (excess \div M) - s * (total \div M)
        lo == 1000 * (excess % M) - s * (total % M)
        millions == hi + (lo \div M)
        units == lo % M
        diff == millions * M + units
    IN /\ s \in 0..1000
       /\ millions \in -501..500
       /\ 2 * diff <= total /\ -2 * diff <= total
       /\ (2 * diff = total \/ -2 * diff = total) => s % 2 = 0

\* The stutter of the claim's formula for total_duration > 0, in tenths.
IsStutterOf(s, excess, total) ==
    IF excess >= total THEN s = 1000 ELSE IsRounded(s, excess, total)

\* C18 as stated: on a tick that finds a new last frame, with P the
\* refresh period, jank is the number of adjacent differences d of the
\* window with d > 2P, excess the sum of d - P over those with d > P, and
\* stutter is min(excess / total_duration * 100, 100) rounded to one
\* decimal, or 0.0 when total_duration is 0.  (With a negative
\* total_duration the formula gives 0.0 when excess * 2000 is at most
\* -total_duration and a negative number otherwise.)
C18_StutterUnlessTotalIsZero ==
    [][(Delivered("monitor") /\ ftrace'.case = "fresh") =>
          LET w == WindowOf(ftrace'.valid)
              P == ftrace'.period
              e == ExcessTime(w, P)
              t == TotalDuration(w)
              s == sample'.fps.stutter
          IN /\ sample'.fps.jank = JankCount(w, P)
             /\ t = 0 => s = 0
             /\ t > 0 => IsStutterOf(s, e, t)
             /\ t < 0 => IF e <= (-t) \div 2000 THEN s = 0 ELSE s < 0
      ]_vars

\* C18 as the code has it: the same, with stutter 0.0 whenever
\* total_duration is 0 or less.
C18_StutterUnlessTotalNotPositive ==
    [][(Delivered("monitor") /\ ftrace'.case = "fresh") =>
          LET w == WindowOf(ftrace'.valid)
              P == ftrace'.period
              e == ExcessTime(w, P)
              t == TotalDuration(w)
              s == sample'.fps.stutter
          IN /\ sample'.fps.jank = JankCount(w, P)
             /\ t <= 0 => s = 0
             /\ t > 0 => IsStutterOf(s, e, t)
      ]_vars

\* The frames 16, 40 and 16 ms apart at a refresh period of 16666666 ns:
\* 4 frames, one jank, stutter 32.4.
C18_Witness ==
    /\ ftrace.case = "fresh" /\ ftrace.valid = Example
    /\ ftrace.period = DefaultPeriod
    /\ sample.fps.fps = 4 /\ sample.fps.jank = 1 /\ sample.fps.stutter = 324

\* ----------------------------------------------------------------------- C19
\* C19: in every sample the stutter is between 0 and 100 percent, fps
\* and jank are not negative, and jank is less than max(fps, 1), whatever
\* the dump, dumps with present times out of order included.
C19_FrameNumbersInRange ==
    /\ sample.fps.stutter \in 0..1000
    /\ sample.fps.fps >= 0
    /\ sample.fps.jank >= 0
    /\ sample.fps.jank < (IF sample.fps.fps > 1 THEN sample.fps.fps ELSE 1)

\* A dump with present times out of order, whose excess is more than its
\* total duration: the stutter is capped at 100.
C19_Witness ==
    /\ ftrace.case = "fresh"
    /\ ftrace.valid = << 100000000, 1100000000, 140000000 >>
    /\ sample.fps.fps = 3 /\ sample.fps.jank = 1 /\ sample.fps.stutter = 1000

\* ----------------------------------------------------------------------- C20
\* C20 as stated: a tick in whose frame timing an exception was raised,
\* in the layer scan, by the latency command or in parsing a row, leaves
\* the cached layer cleared and reports fps 0, jank 0 and stutter 0.
C20_AnyExceptionClears ==
    [][(/\ Delivered("monitor")
        /\ ftrace'.raised \cap {"transport", "list", "probe", "latency", "row"} # {})
          => layer_name' = None /\ ZeroFps(sample')
      ]_vars

\* C20 as the code has it: TransportLost in the layer scan, an exception
\* of the latency command and an exception in parsing a row reach the
\* handler of the engine, which clears the cached layer and reports zeros;
\* a failure of the list of layers leaves no layer and reports zeros; but
\* another exception of the latency probe of one candidate of the scan only
\* drops that candidate, and an unparsable refresh period only selects the
\* default one: the tick goes on with the layer found and the frames read.
C20_HandledExceptionClears ==
    [][Delivered("monitor") =>
          LET raised == ftrace'.raised
          IN /\ (ftrace'.case = "error")
                   <=> (raised \cap {"transport", "latency", "row"} # {})
             /\ (raised \cap {"transport", "latency", "row", "list"} # {})
                   => layer_name' = None /\ ZeroFps(sample')
             /\ (raised # {} /\ raised \subseteq {"probe", "period"})
                   => /\ ftrace'.case \in {"nolayer", "short", "novalid", "stale", "fresh"}
                      /\ ftrace'.case = "fresh"
                            => /\ layer_name' # None
                               /\ sample'.fps.fps = SuffixLength(ftrace'.valid)
             /\ "period" \in raised /\ ftrace'.case = "fresh"
                   => ftrace'.period = DefaultPeriod
      ]_vars

\* The latency probe of one candidate raised an exception in the scan; the
\* other candidate was chosen and its frames are reported.
C20_Witness ==
    /\ ftrace.case = "fresh" /\ ftrace.raised = {"probe"}
    /\ layer_name # None /\ sample.fps.layer = layer_name
    /\ sample.fps.fps > 0

\* ----------------------------------------------------------------------- C21
\* The candidates of a scan that are probed and whose answer has at least
\* 2 lines (and parses), and the timestamp observed in such an answer: the
\* largest, over its three-column rows, of column 3, or of column 2 where
\* column 3 is 2^63 - 1 (0 when it has no such row).
Qualifying(sc) ==
    { i \in 1..Len(sc.layers) :
        /\ i <= ProbeLimit
        /\ sc.probes[i].o = "ok" /\ Len(sc.probes[i].lines) >= 2
        /\ \A j \in 1..Len(sc.probes[i].lines) : sc.probes[i].lines[j].kind # "bad" }

ObservedTs(lines) ==
    LET seen == { IF lines[j].kind = "pending" THEN lines[j].c2 ELSE lines[j].t :
                    j \in { j \in 1..Len(lines) : lines[j].kind \in {"row", "pending"} } }
    IN IF seen = {} THEN 0 ELSE CHOOSE m \in seen : \A x \in seen : x <= m

\* C21: a scan in which no probe loses the transport returns the
\* earliest, in probe order, of the qualifying candidates whose observed
\* timestamp is the largest among them, and no layer when none qualifies.
C21_LatestLayerWins ==
    (call.fn = "find_active_layer" /\ call.done /\ ~call.ret.lost) =>
        LET sc == call.arg
            q == Qualifying(sc)
            Ts(i) == ObservedTs(sc.probes[i].lines)
        IN IF q = {} THEN call.ret.layer = None
           ELSE \E i \in q :
                   /\ call.ret.layer = sc.layers[i]
                   /\ \A j \in q : Ts(j) <= Ts(i) /\ (Ts(j) = Ts(i) => i <= j)

\* Three layers whose probes show 3, then 5 from column 2 of a pending
\* row, then 5 from column 3: the second is returned.
C21_Witness ==
    /\ call.fn = "find_active_layer" /\ call.done
    /\ call.arg.probes = << Answer(<< Line("num", DefaultPeriod), Frame(5, 3) >>),
                            Answer(<< Line("num", DefaultPeriod), Pending(5) >>),
                            Answer(<< Frame(1, 3), Frame(2, 5) >>) >>
    /\ Len(call.arg.layers) = 3
    /\ call.ret.layer = LayerNo(2)

\* ----------------------------------------------------------------------- C22
\* The log loop read the line logged'.line in this step.
ReadLine == logged'.n # logged.n

\* The line's fifth token is E; the line holds a crash keyword.
IsErrorLine(line) == Len(line) >= 5 /\ line[5] = << "E" >>
IsCrashLine(line) ==
    \E w \in { << "FATAL", " ", "EXCEPTION" >>, << "ANR", " ", "in" >>,
               << "AndroidRuntime" >> } : InStr(w, Raw(line))

\* C22: a log event is delivered for a line only if the line is an error
\* line or a crash line, whatever the target and the PIDs are; the event
\* delivered carries the level of the line, whether it is a crash line,
\* and the line itself as message.
C22_OnlyErrorsAndCrashes ==
    [][ReadLine =>
          LET line == logged'.line
          IN /\ Delivered("log") => IsErrorLine(line) \/ IsCrashLine(line)
             /\ Delivered("log") =>
                  /\ logged'.event.message = Raw(line)
                  /\ logged'.event.is_crash = IsCrashLine(line)
                  /\ logged'.event.level = "error" <=> IsErrorLine(line)
                  /\ logged'.event.level = Level(line)
      ]_vars

\* A crash line of level W was delivered, as a warning that is a crash.
C22_Witness ==
    /\ logged.line = ThreadTime(<< "22" >>, << "W" >>, Words(<< "FATAL", "EXCEPTION" >>))
    /\ logged.event.level = "warn" /\ logged.event.is_crash
    /\ target_package = PkgB /\ current_pids = {"22"}

\* ----------------------------------------------------------------------- C23
\* The PID of a line: its third token when that is a decimal number.
HasPid(line) == Len(line) >= 3 /\ line[3] \in { << d >> : d \in Numbers }
PidIsKnown(line) == HasPid(line) /\ line[3][1] \in current_pids

\* An error or crash line is read while a target and a non-empty PID set
\* are known.
ReadWithPids ==
    /\ ReadLine
    /\ target_package # None /\ current_pids # {}
    /\ IsErrorLine(logged'.line) \/ IsCrashLine(logged'.line)

MentionsTarget(line) == InStr(target_package, Raw(line))

\* C23: with a target and a non-empty PID set, an error or crash line,
\* whatever its third token is, is dropped unless its PID (the third token
\* when decimal) is in the PID set or it is a crash line whose text
\* contains the target package; such crash lines are kept.
C23_DroppedUnlessKnownPid ==
    [][ReadWithPids =>
          LET line == logged'.line
          IN /\ Delivered("log") =>
                  \/ PidIsKnown(line)
                  \/ IsCrashLine(line) /\ MentionsTarget(line)
             /\ IsCrashLine(line) /\ MentionsTarget(line) => Delivered("log")
      ]_vars

\* As the code has it: a line without a decimal third token passes.
C23_DroppedUnlessKnownOrNoPid ==
    [][ReadWithPids =>
          LET line == logged'.line
          IN Delivered("log") <=>
                  \/ ~HasPid(line)
                  \/ PidIsKnown(line)
                  \/ IsCrashLine(line) /\ MentionsTarget(line)
      ]_vars

\* An error line of another process, with no decimal PID, was delivered.
C23_Witness ==
    /\ target_package = PkgB /\ current_pids = {"22"}
    /\ logged.line = ThreadTime(<< "u0" >>, << "E" >>, Words(<< "x" >>))
    /\ logged.event.level = "error"

\* ----------------------------------------------------------------------- C24
\* An error or crash line is read.
ReadErrorOrCrash ==
    ReadLine /\ (IsErrorLine(logged'.line) \/ IsCrashLine(logged'.line))

\* C24: with a target and an empty PID set, an error or crash line is
\* delivered if and only if its text contains the target package; with no
\* target, every error or crash line is delivered.
C24_TextFilterWithoutPids ==
    [][ReadErrorOrCrash =>
          /\ target_package # None /\ current_pids = {} =>
                (Delivered("log") <=> MentionsTarget(logged'.line))
          /\ target_package = None => Delivered("log")
      ]_vars

\* With target ab and no PID, an error line naming ab was delivered and,
\* on another read, an error line not naming it was dropped.
C24_Witness ==
    /\ target_package = PkgB /\ current_pids = {}
    /\ logged.line = ThreadTime(<< "99" >>, << "E" >>, << << "x" >>, PkgB >>)
    /\ logged.event.level = "error"

C24_WitnessDropped ==
    /\ target_package = PkgB /\ current_pids = {}
    /\ logged.line = ThreadTime(<< "22" >>, << "E" >>, Words(<< "x" >>))
    /\ logged.event.level = ""

C24_WitnessNoTarget ==
    /\ target_package = None
    /\ logged.line = Words(<< "FATAL", "EXCEPTION" >>)
    /\ logged.event.is_crash

\* ----------------------------------------------------------------------- C25
\* The log loop of generation g ends in this step, and why.
LoopEnds(g) == lpc[g] # "done" /\ lpc'[g] = "done"
EndsBy(g, why) == LoopEnds(g) /\ lexit'[g] = why

\* C25: the log loop ends on EOF of the child's output without delivering
\* an event for that read; a whitespace-only line is skipped without
\* delivering an event and without ending the loop (which goes on while
\* running holds); and whenever the loop ends (EOF, running cleared,
\* exception) its child has been terminated and awaited: no loop that is
\* done has a live child.
C25_LoopEndsCleanly ==
    [][/\ \A g \in Gens :
            /\ lpc[g] = "read" /\ lpc'[g] = "done" /\ lexit'[g] = "eof" =>
                  ~Delivered("log") /\ ~ReadLine
            /\ LoopEnds(g) => proc'[g] # "alive"
       /\ ReadLine /\ logged'.line = Blank =>
            /\ ~Delivered("log")
            /\ \A g \in Gens : LoopEnds(g) => ~running /\ lexit'[g] = "stopped"
      ]_vars

\* No loop that is done has a live child.
C25_DoneHasNoChild == \A g \in Gens : lpc[g] = "done" => proc[g] # "alive"

\* A loop that read a blank line and went on ended by EOF, its child gone,
\* while a second one ended by running being cleared.
C25_Witness ==
    /\ logged.line = Blank /\ logged.n = 1
    /\ lpc[1] = "done" /\ lexit[1] = "eof" /\ proc[1] = "exited"
    /\ lpc[2] = "done" /\ lexit[2] = "stopped" /\ proc[2] = "exited"

\* ----------------------------------------------------------------------- C26
\* _get_network_usage has been called; the counters it obtained.
NetCalled == call.fn = "get_network_usage"
Obtained == current_counters(call.arg.in)

\* C26: the rx and tx rates reported are >= 0, and the rate of a direction
\* is exactly 0 whenever the current byte counter of that direction is
\* less than the counter stored by the previous successful tick.
C26_RatesNotNegative ==
    NetCalled =>
        /\ call.ret.rx >= 0 /\ call.ret.tx >= 0
        /\ Obtained # None /\ call.arg.last # None =>
              /\ Obtained[1] < call.arg.last[1] => call.ret.rx = 0
              /\ Obtained[2] < call.arg.last[2] => call.ret.tx = 0

\* The rx counter fell below the stored one while tx grew: rx is 0 and tx
\* is (52736 - 1024) / 1024 / 1 = 50.5 KB/s.
C26_Witness ==
    /\ NetCalled
    /\ call.arg.last = << 52736, 1024, 0 >> /\ call.arg.now = 1
    /\ Obtained = << 1024, 52736 >>
    /\ call.ret = [rx |-> 0, tx |-> 505]

\* ----------------------------------------------------------------------- C27
\* C27: a tick that obtains counters stores (rx, tx, time) as the baseline
\* for the next tick; a tick on which all three counter sources fail
\* clears the baseline and reports rx = tx = 0; and the first successful
\* tick after a cleared or never set baseline reports rx = tx = 0 too.
C27_BaselineStoredOrCleared ==
    NetCalled =>
        /\ Obtained # None =>
              last_network_data = << Obtained[1], Obtained[2], call.arg.now >>
        /\ (call.arg.in.uid_stat = None /\ call.arg.in.qtaguid = None
              /\ call.arg.in.dev = None) =>
              last_network_data = None /\ call.ret = [rx |-> 0, tx |-> 0]
        /\ Obtained # None /\ call.arg.last = None =>
              call.ret = [rx |-> 0, tx |-> 0]

\* After a baseline was stored, a tick found no counters: the baseline is
\* cleared.
C27_Witness ==
    /\ NetCalled
    /\ call.arg.last = << 1024, 52736, 1 >> /\ call.arg.now = 2
    /\ Obtained = None /\ last_network_data = None

\* The first tick with counters after the cleared baseline: zero rates,
\* although a second has passed, and the baseline is set.
C27_WitnessFirst ==
    /\ NetCalled
    /\ call.arg.last = None /\ call.arg.now = 2
    /\ Obtained = << 3000000, 3000256 >>
    /\ last_network_data = << 3000000, 3000256, 2 >>

\* ----------------------------------------------------------------------- C28
\* _get_gpu_usage has been called; the place of a path in the list.
GpuCalled == call.fn = "get_gpu_usage"
PlaceOf(path) == CHOOSE i \in 1..Len(gpu_paths) : gpu_paths[i] = path

\* The content of the i-th path parses; the value it gives.
Parses(i) ==
    /\ call.arg.dev[i].o = "ok" /\ call.arg.dev[i].lines # << >>
    /\ parse_gpu_from_content(call.arg.dev[i].lines, gpu_paths[i]).o = "value"
ParsedValue(i) == parse_gpu_from_content(call.arg.dev[i].lines, gpu_paths[i]).v

\* No command and no parse before the i-th path raised.
QuietBefore(i) ==
    \A j \in 1..(i - 1) :
        /\ call.arg.dev[j].o = "ok"
        /\ call.arg.dev[j].lines # << >> =>
              parse_gpu_from_content(call.arg.dev[j].lines, gpu_paths[j]).o # "raise"

C28_WitnessFirst ==
    /\ GpuCalled
    /\ call.arg.cached = None /\ valid_gpu_path = gpu_paths[2]
    /\ call.arg.dev[1] = Answer(<< >>) /\ call.ret.val = 420

\* ----------------------------------------------------------------------- C29
\* The parser has returned (or raised) for the content and path of call.arg.
GpuParsed == call.fn = "parse_gpu_from_content" /\ call.done
KgslPath == InStr(<< "kgsl" >>, call.arg.path)

\* The content is exactly two integers; it is one bare non-negative integer.
TwoIntegers ==
    /\ Len(call.arg.output) = 2
    /\ call.arg.output[1].k = "int" /\ call.arg.output[2].k = "int"
BareInteger ==
    /\ Len(call.arg.output) = 1
    /\ call.arg.output[1].k = "int" /\ call.arg.output[1].v >= 0

\* t tenths is used / total * 100 rounded to one decimal.
RoundedPercent(t, used, total) ==
    LET d == t * total - 1000 * used
    IN 2 * (IF d < 0 THEN -d ELSE d) <= total

\* The result for the contents the statement gives a value for.
KgslResult ==
    LET used == call.arg.output[1].v
        total == call.arg.output[2].v
    IN /\ call.ret.o = "value"
       /\ IF total <= 0 THEN call.ret.v = 0
          ELSE IF used > total THEN call.ret.v = 1000
          ELSE RoundedPercent(call.ret.v, used, total)

\* C29: for a kgsl path with content of exactly two integers the result is
\* used / total * 100 rounded to one decimal and capped at 100.0 when
\* total > 0, and 0.0 when total <= 0; for any other path with content
\* that is a bare non-negative integer the result is that integer; for any
\* other content there is no value (None).
C29_GpuContentParsed ==
    GpuParsed =>
        IF KgslPath /\ TwoIntegers THEN KgslResult
        ELSE IF ~KgslPath /\ BareInteger
        THEN call.ret = Value(10 * call.arg.output[1].v)
        ELSE call.ret = NoValue

\* As the code has it: content that str.isdigit() accepts and float()
\* rejects raises ValueError on a path that is not kgsl.
C29_GpuContentParsedOrRaises ==
    GpuParsed =>
        IF KgslPath /\ TwoIntegers THEN KgslResult
        ELSE IF ~KgslPath /\ BareInteger
        THEN call.ret = Value(10 * call.arg.output[1].v)
        ELSE IF ~KgslPath /\ call.arg.output = << Sup >>
        THEN call.ret = Raises
        ELSE call.ret = NoValue

\* 71894 of 1209006 cycles on the kgsl path: 5.9.
C29_Witness ==
    /\ GpuParsed /\ KgslPath
    /\ call.arg.output = << Num(71894), Num(1209006) >>
    /\ call.ret = Value(59)

\* ----------------------------------------------------------------------- C30
\* The CPU parser has returned for the output of call.arg.
CpuParsed == call.fn = "parse_cpu_from_top" /\ call.done

\* The row has a state anchor: a state character followed by a number.
HasAnchor(parts) ==
    \E i \in 1..(Len(parts) - 1) :
        parts[i] = St /\ parts[i + 1].k \in {"float", "pct"}
AfterAnchor(parts) ==
    LET i == CHOOSE i \in 1..(Len(parts) - 1) :
                 /\ parts[i] = St /\ parts[i + 1].k \in {"float", "pct"}
                 /\ \A j \in 1..(i - 1) :
                        ~(parts[j] = St /\ parts[j + 1].k \in {"float", "pct"})
    IN parts[i + 1].v

TokensOf(parts) == { parts[i] : i \in 1..Len(parts) }

\* What a row contributes by the statement: nothing for a header, a row
\* without a state anchor or a row of fewer than 5 tokens.
Contributes(parts) ==
    IF Len(parts) < 5 \/ (PidTok \in TokensOf(parts) /\ UserTok \in TokensOf(parts))
       \/ ~HasAnchor(parts)
    THEN 0
    ELSE AfterAnchor(parts)

\* The same, with what a row without an anchor contributes in the code:
\* its first token that is a number with a percent sign.
ContributesOrPercent(parts) ==
    IF Len(parts) < 5 \/ (PidTok \in TokensOf(parts) /\ UserTok \in TokensOf(parts))
    THEN 0
    ELSE IF HasAnchor(parts) THEN AfterAnchor(parts)
    ELSE IF \E i \in 1..Len(parts) : parts[i].k = "pct"
    THEN parts[CHOOSE i \in 1..Len(parts) :
                  parts[i].k = "pct" /\ \A j \in 1..(i - 1) : parts[j].k # "pct"].v
    ELSE 0

\* C30: _parse_cpu_from_top returns the sum, over all rows, of the number
\* that follows the row's state character, wherever that column sits;
\* header rows (with both PID and USER), summary rows without a state
\* anchor and rows of fewer than 5 tokens contribute 0.
C30_SumOfAnchoredRows ==
    CpuParsed =>
        call.ret = SumTo([i \in 1..Len(call.arg) |-> Contributes(call.arg[i])],
                         Len(call.arg))

\* As the code has it: a row without an anchor contributes its first
\* percentage.
C30_SumOfAnchoredOrPercentRows ==
    CpuParsed =>
        call.ret = SumTo([i \in 1..Len(call.arg) |-> ContributesOrPercent(call.arg[i])],
                         Len(call.arg))

\* A summary row `User 5%, System 3%, IOW 0%, IRQ 2%` before a process row
\* of 10.5: the result is 12.5.
C30_Witness ==
    /\ CpuParsed
    /\ call.arg = << << Word, PctText, Word, PctText, Word, PctText, Word, Pct(20) >>,
                     Filler(7) \o << St, Fl(105), Fl(21), Word, Word >> >>
    /\ call.ret = 125

\* ----------------------------------------------------------------------- C31
\* _get_memory_usage has returned for the output of call.arg.
MemParsed == call.fn = "get_memory_usage" /\ call.done

\* A well-formed TOTAL line: it starts with TOTAL, holds no PSS:, and its
\* second token is a decimal number.
WellFormedTotal(line) ==
    /\ Len(line) >= 2 /\ line[1] = Lbl("TOTAL")
    /\ \A i \in 1..Len(line) : line[i] # Lbl("PSS:")
    /\ line[2].k = "int" /\ line[2].v >= 0
HasTotal == \E i \in 1..Len(call.arg.lines) : WellFormedTotal(call.arg.lines[i])

\* C31: for every output of meminfo the reported total and every value of
\* the breakdown are >= 0, and the reported total is 0 if and only if the
\* output has no well-formed TOTAL line.
C31_TotalIffTotalLine ==
    MemParsed =>
        /\ \A f \in {"total", "java", "native", "graphics", "code", "other"} :
              call.ret[f] >= 0
        /\ call.ret.total = 0 <=> ~HasTotal

\* As the code has it: the total is not negative, and it is positive only
\* with a well-formed TOTAL line.
C31_TotalOnlyWithTotalLine ==
    MemParsed => call.ret.total >= 0 /\ (call.ret.total > 0 => HasTotal)

\* A TOTAL line of 45000 KB and a line `Code: <no number>`: the dict is
\* empty and the total of the sample is 0.
C31_Witness ==
    /\ MemParsed
    /\ call.arg = Answer(<< << Lbl("TOTAL"), Num(45000), Num(30000) >>,
                            << Lbl("Code:"), Word >> >>)
    /\ call.ret = EmptyMem

\* ----------------------------------------------------------------------- C32
\* The handler takes the event at the head of the queue in this step.
Takes == Open /\ endpoint.data_queue # << >> /\ endpoint'.data_queue = Tail(endpoint.data_queue)

\* The event is a sample of the metrics: the dict of _collect_once or of
\* _report_loop.
IsSample(data) == "cpu" \in DOMAIN data

\* The event was sent and no write raised.
Unhindered == endpoint'.took.wrote \notin {"error", "unsent"}

\* C32: while there is a CSV writer, every sample of the metrics taken from
\* the queue, of the Android or of the iOS collector, adds exactly one row
\* of the fourteen columns in their order to the file, and every other
\* event (screenshot, log) adds none - when the event could be sent and
\* the write did not raise.
C32_EverySampleOneRow ==
    [][Takes /\ endpoint.record_writer /\ Unhindered =>
          LET data == Head(endpoint.data_queue)
          IN endpoint'.record = IF IsSample(data)
                                THEN Append(endpoint.record, Row(data))
                                ELSE endpoint.record]_vars

\* What the handler does: the same for the samples of the Android collector
\* only; no event of the iOS collector adds a row.
C32_AndroidSampleOneRow ==
    [][Takes /\ endpoint.record_writer /\ Unhindered =>
          LET data == Head(endpoint.data_queue)
          IN endpoint'.record = IF IsSample(data) /\ endpoint.platform = "android"
                                THEN Append(endpoint.record, Row(data))
                                ELSE endpoint.record]_vars

\* A sample of the iOS collector taken while recording: the file holds the
\* header and nothing else.
C32_Witness ==
    /\ endpoint.platform = "ios" /\ endpoint.record_writer
    /\ endpoint.took.recording /\ endpoint.took.wrote = "none"
    /\ IsSample(endpoint.took.data) /\ endpoint.took.data.package = PkgA
    /\ endpoint.record = << Header >>

\* A sample of the Android collector taken while recording: one row after
\* the header, the fourteen columns in order.
C32_WitnessAndroid ==
    /\ endpoint.platform = "android" /\ endpoint.took.wrote = "row"
    /\ endpoint.record =
         << Header, << 0, PkgB, 12, 345, 60, 1, 2, 30, 80, 4200, 31, 250, 5, 7 >> >>

\* ----------------------------------------------------------------------- C33
ValidCalled == call.fn = "valid_lines" /\ call.done

\* `len(parts) == 3`
ThreeColumns(line) == line.kind \in {"row", "pending"}

\* The rows after line 0 that have three columns, in input order.
LatencyRows(lines) == SelectSeq(Tail(lines), ThreeColumns)

\* The rows that are kept when those with 0 or 2^63 - 1 in the second
\* column (actual_present) are discarded, and their second columns.
ActualPresents(lines) ==
    LET Kept(line) == line.c2 \notin {0, Int64Max}
        rows == SelectSeq(LatencyRows(lines), Kept)
    IN [i \in 1..Len(rows) |-> rows[i].c2]

\* The same by the third column (frame_ready).
FrameReadys(lines) ==
    LET Kept(line) == line.kind = "row" /\ line.t # 0
        rows == SelectSeq(LatencyRows(lines), Kept)
    IN [i \in 1..Len(rows) |-> rows[i].t]

\* C33: a three-column row of the latency dump is discarded iff its second
\* column (actual_present) is 0 or 2^63 - 1, valid[] is the second columns
\* of the other three-column rows in input order, and rows that do not
\* have three columns are ignored.
C33_ValidIsActualPresent == ValidCalled => call.ret = ActualPresents(call.arg)

\* What the engine does: the same by the third column.
C33_ValidIsFrameReady == ValidCalled => call.ret = FrameReadys(call.arg)

\* A row `x 100 0` and a row `x 0 200`: the first is dropped although its
\* actual_present is 100, the second gives 200 although its actual_present
\* is 0.
C33_Witness ==
    /\ ValidCalled
    /\ call.arg = << Line("num", DefaultPeriod), Frame(100, 0), Frame(0, 200) >>
    /\ call.ret = << 200 >>

\* ----------------------------------------------------------------------- C34
ListCalled == call.fn = "valid_candidates" /\ call.done

\* The name of the layer of a line: the line, or what the wrapper holds.
NameOf(line) ==
    IF MatchStart(line) = 0 THEN strip(line) ELSE Group(line, MatchStart(line))

StartsWith(prefix, text) ==
    Len(text) >= Len(prefix) /\ SubSeq(text, 1, Len(prefix)) = prefix

\* A candidate as the sentence has it: the line holds the package, and the
\* layer is not named Splash Screen and its name does not start with
\* Background for.
Candidate(line) ==
    /\ InStr(PkgA, line)
    /\ ~InStr(SplashScreen, NameOf(line))
    /\ ~StartsWith(BackgroundFor, NameOf(line))

\* A candidate as the code has it: the tests are made on the clean name and
\* both look for the text anywhere in it.
CleanCandidate(line) ==
    /\ InStr(PkgA, line)
    /\ ~InStr(SplashScreen, clean_name(line))
    /\ ~InStr(BackgroundFor, clean_name(line))

\* Probed first: the clean name holds SurfaceView or /.
Preferred(line) == InStr(SurfaceView, clean_name(line)) \/ InStr(Slash, clean_name(line))

FirstTen(order) == SubSeq(order, 1, IF Len(order) < ProbeLimit THEN Len(order) ELSE ProbeLimit)

\* C34: the lines probed are the candidates - the lines that hold the
\* package and whose layer is neither named Splash Screen nor has a name
\* starting with Background for -, those with SurfaceView or / before all
\* others and the order of the list kept otherwise, and of that order the
\* first 10 at most.
C34_CandidatesInOrder ==
    ListCalled =>
        LET First(line) == Candidate(line) /\ Preferred(line)
            Then(line) == Candidate(line) /\ ~Preferred(line)
        IN call.ret = FirstTen(Picked(call.arg, First, 1) \o Picked(call.arg, Then, 1))

\* What the code does: the same with the candidates of the code.
C34_CleanCandidatesInOrder ==
    ListCalled =>
        LET First(line) == CleanCandidate(line) /\ Preferred(line)
            Then(line) == CleanCandidate(line) /\ ~Preferred(line)
        IN call.ret = FirstTen(Picked(call.arg, First, 1) \o Picked(call.arg, Then, 1))

\* A wrapped Splash Screen layer is probed, under the name `a#`.
C34_Witness ==
    /\ ListCalled
    /\ call.arg = << << "a" >>,
                     << Wrapper, "Splash Screen", Space, "a", Hash, Space, "p", Brace >> >>
    /\ call.ret = << 1, 2 >>
    /\ clean_name(call.arg[2]) = << "a", Hash >>

\* A layer with Background for after the package is not probed.
C34_WitnessInside ==
    /\ ListCalled
    /\ call.arg = << << "a", "/", "Background for" >>, << "a" >> >>
    /\ call.ret = << 2 >>

\* Of eleven candidates the last, the only one with /, is probed first and
\* the tenth of the others is not probed.
C34_WitnessTen ==
    /\ ListCalled /\ Len(call.arg) = ProbeLimit + 1
    /\ call.ret = << 11, 1, 2, 3, 4, 5, 6, 7, 8, 9 >>

\* ----------------------------------------------------------------------- C35
\* A loop is active from its first test of `while self.running` to its end:
\* its task has run and has not returned.
Active(pc, g) == pc[g] \notin {"none", "new", "done"}
ActiveLoops(pc) == { g \in Gens : Active(pc, g) }
Children == { g \in Gens : proc[g] = "alive" }

\* C35: whatever start(), stop() and set_target() calls and loop steps there
\* have been, at most one metrics loop, one screenshot loop and one log
\* loop are active, and at most one logcat child is alive.
C35_OneLoopOfEachKind ==
    /\ Cardinality(ActiveLoops(cpc)) <= 1
    /\ Cardinality(ActiveLoops(spc)) <= 1
    /\ Cardinality(ActiveLoops(lpc)) <= 1
    /\ Cardinality(Children) <= 1

\* The same for the metrics loops alone.
C35_OneMetricsLoop == Cardinality(ActiveLoops(cpc)) <= 1

\* What holds: the loops that are active are those of the start() calls
\* made so far, one of each kind for a call.
C35_OneLoopOfEachKindPerStart ==
    /\ \A g \in Gens : g > nstarts => cpc[g] = "none" /\ spc[g] = "none" /\ lpc[g] = "none"
    /\ \A g \in Gens : proc[g] = "alive" => Active(lpc, g)

\* After start, stop and start the screenshot loops and the log loops of
\* both calls are running, each log loop with its own child.
C35_Witness ==
    /\ running /\ nstarts = 2
    /\ ActiveLoops(spc) = {1, 2} /\ ActiveLoops(lpc) = {1, 2}
    /\ Children = {1, 2}

\* ----------------------------------------------------------------------- C36
\* The screenshot loop of generation g delivers the event of its tick in
\* this step.
ShotDelivered(g) == spc[g] = "resume" /\ spc'[g] = "wait" /\ Delivered("screenshot")

\* C36: a screenshot event is delivered only for a tick whose capture
\* succeeded and wrote the JPEG file the event names; a tick whose capture
\* failed, for whatever reason, delivers none.
C36_EventOnlyWithFile ==
    [][\A g \in Gens : ShotDelivered(g) => sres[g] = "saved"]_vars

\* What the loop does: no event for a tick whose capture raised the
\* transport error.
C36_EventUnlessTransportLost ==
    [][\A g \in Gens : ShotDelivered(g) => sres[g] \in {"saved", "nofile"}]_vars

\* The first event delivered, with the time of a tick that wrote no file.
C36_Witness ==
    \E g \in Gens :
        /\ spc[g] = "wait" /\ sres[g] = "nofile" /\ nstarts = 1
        /\ sent["screenshot"] = 1 /\ sts[g] > 0 /\ last["screenshot"] = sts[g]

\* ----------------------------------------------------------------------- C37
\* A tick whose frame timing ran.
FrameTimingTick == Delivered("monitor") /\ ftrace'.case # "none"

\* The tick runs the layer scan: `should_scan` is set when it begins.
ScanRan == should_scan(target_package, layer_name)

\* C37: a tick that finds a layer cached - selection has returned it for
\* the target, which has not changed, and neither the watchdog nor a short
\* dump nor an exception has cleared it since - does not run the layer
\* scan, whatever name selection returned, a name taken out of a
\* RequestedLayerState wrapper included.
C37_CachedLayerReused ==
    [][FrameTimingTick /\ layer_name # None => ~ScanRan]_vars

\* What the engine does: it reuses a cached name that holds the package.
C37_CachedLayerWithPackageReused ==
    [][FrameTimingTick /\ layer_name # None /\ InStr(target_package, layer_name)
          => ~ScanRan]_vars

\* The second stale tick in a row has the name `M#` from its scan: the
\* layer was cached, under that name, when the tick began, and the next
\* tick scans again.
C37_Witness ==
    /\ ftrace.case = "stale" /\ stale_run = 2
    /\ layer_name = << "M", Hash >> /\ should_scan(target_package, layer_name)

\* The same with the name `a/M#`, which the next tick reuses.
C37_WitnessReused ==
    /\ ftrace.case = "stale" /\ stale_run = 2
    /\ layer_name = << "a", "/", "M", Hash >> /\ ~should_scan(target_package, layer_name)

\* ----------------------------------------------------------------------- C38
\* The source the counters of a call came from: the first that answered.
SourceOf(in) ==
    IF in.uid /\ in.uid_stat # None THEN "uid_stat"
    ELSE IF in.uid /\ in.qtaguid # None THEN "qtaguid"
    ELSE IF in.dev # None THEN "dev"
    ELSE "none"

\* This step is a call of _get_network_usage for a target, with a baseline
\* stored by the call before it, which was for a target too.
RatedAgainstBaseline ==
    /\ call.fn = "get_network_usage" /\ call'.fn = "get_network_usage"
    /\ call' # call
    /\ call'.arg.last # None
    /\ call.arg.package # None /\ call'.arg.package # None

ReportsZero == call'.ret = [rx |-> 0, tx |-> 0]

\* C38: a rate is computed only from two readings of the same source for
\* the same target: a call whose source, or whose target, is not the one
\* of the call that stored the baseline reports 0 for both directions.
C38_SameSourceAndTarget ==
    [][RatedAgainstBaseline =>
          /\ SourceOf(call'.arg.in) # SourceOf(call.arg.in) => ReportsZero
          /\ call'.arg.package # call.arg.package => ReportsZero]_vars

\* What the function does: the rate is the difference to the stored
\* counters, whatever source and target they were read from and for.
C38_RateAgainstAnyBaseline ==
    [][RatedAgainstBaseline /\ SourceOf(call'.arg.in) # "none"
          /\ call'.arg.now > call'.arg.last[3] =>
          LET now == current_counters(call'.arg.in)
              span == call'.arg.now - call'.arg.last[3]
          IN call'.ret = [rx |-> Rate(now[1], call'.arg.last[1], span),
                          tx |-> Rate(now[2], call'.arg.last[2], span)]]_vars

\* The per-UID counters of package a are the baseline and a second later
\* the counters of /proc/net/dev are read for package a.b: the tick reports
\* (3000000 - 1024) / 1024 = 2928.7 KB/s received.
C38_Witness ==
    /\ call.fn = "get_network_usage"
    /\ call.arg.package = PkgB /\ SourceOf(call.arg.in) = "dev"
    /\ call.arg.last = << 1024, 52736, 0 >> /\ call.arg.now = 1
    /\ current_counters(call.arg.in) = << 3000000, 3000256 >>
    /\ call.ret.rx = 29287

====
